---- MODULE Spec2Model ----
(***************************************************************************)
(* Voting dapp: the Merkle whitelist tooling of the web client             *)
(* (frontend/src/pages/MerkleGeneratorCSV.jsx), the proof transport of the *)
(* Vote page (frontend/src/pages/Vote.jsx) and the SimpleVoting contract   *)
(* (backend/contracts/SimpleVoting.sol).                                   *)
(*                                                                         *)
(* Representation of byte strings.  A byte string is a sequence of hex     *)
(* digits (values 0..15).  A hex string, as the JavaScript side handles    *)
(* it, is a sequence of character codes starting with "0x" (48, 120).      *)
(* keccak256 is modelled collision-free: the digest of a preimage is the   *)
(* preimage behind a tag digit that depends on the preimage's length       *)
(* (14 for the one-unit preimage of an address, 15 for the concatenation   *)
(* of two digests).  Digests with an unknown preimage are the single       *)
(* digits 1..13, and bytes32(0) is the single digit 0.  The encoding is    *)
(* prefix-free, so lexicographic comparison of two digests is decided at   *)
(* the first differing digit, as it is for fixed-width 32-byte values.     *)
(***************************************************************************)
EXTENDS Integers, Sequences, FiniteSets, TLC

VARIABLES
    \* one run of the generator: addresses -> leaves -> tree -> proofs
    pc, addresses, leaves, level, levels, proofs,
    \* one application of the pair rule on both sides
    hexA, hexB, parents,
    \* SimpleVoting storage, block time and the outcome of the last call
    owner, ballots, candidateVotes, hasVoted, nameHashToIdPlusOne, nextBallotId,
    paused, now, last,
    \* Vote page: the proof handed over or typed, and what submitVote did with it
    ppc, resultProof, merkleProofText, proofSent, voteStatus,
    \* one call of withRetries
    rpc, retries, initialDelay, attempt, delay, calls, waits, thrown,
    \* history: the ballots whose endTimestamp block time has passed so far
    endedOnce

mvars == <<pc, addresses, leaves, level, levels, proofs>>
ovars == <<hexA, hexB, parents>>
cvars == <<owner, ballots, candidateVotes, hasVoted, nameHashToIdPlusOne, nextBallotId,
           paused, now, last>>
pvars == <<ppc, resultProof, merkleProofText, proofSent, voteStatus>>
rvars == <<rpc, retries, initialDelay, attempt, delay, calls, waits, thrown>>
uvars == <<pvars, rvars>>
hvars == <<endedOnce>>
vars == <<mvars, ovars, cvars, uvars, hvars>>

\* ------------------------------------------------------------------ bounds
NAddr == 3          \* number of distinct addresses
MaxLen == 5         \* longest address list given to the generator
MaxForgeLen == 3    \* longest address list whose root is attacked
MaxProofLen == 2    \* longest foreign proof tried against a root
NVoters == 2        \* accounts that call the contract
MaxBallots == 1     \* ballots the owner creates
MaxIds == 3         \* ballots the owner creates where only ids are followed
MaxTime == 2        \* block timestamps run over 0..MaxTime

\* The 20-byte addresses: one digit each, digits and letters both occurring.
Addresses == 9 .. (8 + NAddr)

\* All sequences over S of length lo..hi.
SeqsOf(S, lo, hi) == UNION { [1..n -> S] : n \in lo..hi }

\* ------------------------------------------------- JavaScript string layer
\* Lexicographic three-way comparison of two sequences of numbers:
\* -1, 0 or 1, decided at the first position where they differ; a proper
\* prefix is smaller.
LexCmp(a, b) ==
    LET n == IF Len(a) < Len(b) THEN Len(a) ELSE Len(b)
        diff == { i \in 1..n : a[i] # b[i] }
        first == CHOOSE i \in diff : \A j \in diff : i <= j
    IN  IF diff # {} THEN (IF a[first] < b[first] THEN -1 ELSE 1)
        ELSE IF Len(a) < Len(b) THEN -1
        ELSE IF Len(a) > Len(b) THEN 1
        ELSE 0

\* toLowerCase left out: the strings are compared as they come.
toLowerCaseMissing(s) == s

\* String.prototype.toLowerCase on a string of ASCII codes.
toLowerCase(s) == [i \in 1..Len(s) |-> IF s[i] \in 65..90 THEN s[i] + 32 ELSE s[i]]

\* The JavaScript relational operator <= on two strings (code-unit order).
StrLE(a, b) == LexCmp(a, b) <= 0

\* Value of one hex character, either case.
nibbleOf(c) == IF c \in 48..57 THEN c - 48
               ELSE IF c \in 97..102 THEN c - 87
               ELSE c - 55

\* Lower-case hex character of a digit.
hexChar(n) == IF n < 10 THEN 48 + n ELSE 87 + n

\* ethers.hexlify: bytes to a lower-case 0x-prefixed hex string.
hexlify(bytes) == <<48, 120>> \o [i \in 1..Len(bytes) |-> hexChar(bytes[i])]

\* ethers.getBytes: 0x-prefixed hex string (either case) to bytes.
hexToBytes(hex) == [i \in 1..(Len(hex) - 2) |-> nibbleOf(hex[i + 2])]

\* The hash primitive on bytes (collision-free model).
keccak256(bytes) == <<IF Len(bytes) = 1 THEN 14 ELSE 15>> \o bytes

\* ethers.keccak256 as the generator uses it: bytes in, lower-case hex out.
keccak(bytes) == hexlify(keccak256(bytes))

\* bytes32(0), the "no whitelist" sentinel.
ZeroRoot == <<0>>

\* ------------------------------------------------------ Merkle generator
\* One leaf per distinct address: a repeated address is skipped.
RECURSIVE buildLeavesDedup(_)
buildLeavesDedup(addrs) ==
    IF addrs = <<>> THEN <<>>
    ELSE LET n == Len(addrs)
             front == SubSeq(addrs, 1, n - 1)
         IN  IF \E j \in 1 .. (n - 1) : addrs[j] = addrs[n]
             THEN buildLeavesDedup(front)
             ELSE Append(buildLeavesDedup(front), keccak(<<addrs[n]>>))

\* buildLeavesFromAddresses: one leaf per address, order kept.
buildLeavesFromAddresses(addrs) ==
    [i \in 1..Len(addrs) |-> keccak(hexToBytes(hexlify(<<addrs[i]>>)))]

\* The pair hashed in the order it stands in the level, never swapped.
orderedPairUnsorted(a, b) == <<a, b>>

\* The two branches of the loop body of buildMerkleTree: the canonical
\* order is decided on the lower-cased hex strings with <=.
orderedPair(a, b) ==
    IF StrLE(toLowerCase(a), toLowerCase(b)) THEN <<a, b>> ELSE <<b, a>>

\* The pair hashed left to right as it stands.
combineUnsorted(a, b) == keccak(hexToBytes(a) \o hexToBytes(b))

\* The parent of a pair: keccak of the two nodes' bytes in canonical order.
combine(a, b) ==
    LET AB == orderedPair(a, b)
    IN  keccak(hexToBytes(AB[1]) \o hexToBytes(AB[2]))

\* The unpaired last node of an odd level dropped instead of self-paired.
NextLevelDropOdd(lv) ==
    [k \in 1..(Len(lv) \div 2) |-> combine(lv[2 * k - 1], lv[2 * k])]

\* One pass of the for loop of buildMerkleTree over a level: adjacent pairs,
\* the unpaired last node paired with itself.
NextLevel(lv) ==
    [k \in 1..((Len(lv) + 1) \div 2) |->
        LET left == lv[2 * k - 1]
        IN  IF 2 * k <= Len(lv) THEN combine(left, lv[2 * k])
            ELSE combine(left, left)]

\* The levels pushed by the while loop of buildMerkleTree, starting at lv.
RECURSIVE BuildLevels(_)
BuildLevels(lv) ==
    IF Len(lv) > 1 THEN <<lv>> \o BuildLevels(NextLevel(lv))
    ELSE <<lv>>

\* buildMerkleTree(leaves) = { levels }.
buildMerkleTree(lvs) == [levels |-> BuildLevels(lvs)]

\* An array read that misses (JavaScript undefined).
Undefined == <<>>

\* 0-based array read.
At(arr, i) == IF i >= 0 /\ i < Len(arr) THEN arr[i + 1] ELSE Undefined

\* The sibling always taken to the right (idx + 1).
Xor1AlwaysRight(idx) == idx + 1

\* idx ^ 1.
Xor1(idx) == IF idx % 2 = 0 THEN idx + 1 ELSE idx - 1

\* The loop run over every level, the root level included (l < levels.length).
RECURSIVE ProofFromInclRoot(_, _, _)
ProofFromInclRoot(lvls, l, idx) ==
    IF l < Len(lvls)
    THEN LET lv == lvls[l + 1]
             siblingIndex == Xor1(idx)
             entry == IF siblingIndex < Len(lv) THEN At(lv, siblingIndex)
                      ELSE At(lv, idx)
         IN  <<entry>> \o ProofFromInclRoot(lvls, l + 1, idx \div 2)
    ELSE <<>>

\* getProofForIndex: the loop from level l (0-based) upward.
RECURSIVE ProofFrom(_, _, _)
ProofFrom(lvls, l, idx) ==
    IF l < Len(lvls) - 1
    THEN LET lv == lvls[l + 1]
             siblingIndex == Xor1(idx)
             entry == IF siblingIndex < Len(lv) THEN At(lv, siblingIndex)
                      ELSE At(lv, idx)
         IN  <<entry>> \o ProofFrom(lvls, l + 1, idx \div 2)
    ELSE <<>>

getProofForIndex(lvls, index) == ProofFrom(lvls, 0, index)

\* ------------------------------------------- on-chain verifier (bytes32)
\* bytes32 a < b: unsigned comparison of the raw bytes.
Bytes32LT(a, b) == LexCmp(a, b) < 0

\* MerkleProof._hashPair: a < b ? hash(a, b) : hash(b, a).
sortedPair(a, b) == IF Bytes32LT(a, b) THEN <<a, b>> ELSE <<b, a>>

\* The smaller digest hashed with itself, the other one ignored.
hashPairDropSibling(a, b) == keccak256(sortedPair(a, b)[1] \o sortedPair(a, b)[1])

hashPair(a, b) == keccak256(sortedPair(a, b)[1] \o sortedPair(a, b)[2])

\* MerkleProof.processProof.
RECURSIVE processProof(_, _)
processProof(proof, leaf) ==
    IF proof = <<>> THEN leaf
    ELSE processProof(Tail(proof), hashPair(leaf, Head(proof)))

\* An empty proof taken as "nothing to check".
verifyEmptyOk(proof, root, leaf) == proof = <<>> \/ processProof(proof, leaf) = root

\* MerkleProof.verify(proof, root, leaf).
verify(proof, root, leaf) == processProof(proof, leaf) = root

\* keccak256(abi.encodePacked(msg.sender)) in vote.
senderLeaf(sender) == keccak256(<<sender>>)

\* The ABI encoding of a proof given as hex strings.
toBytes32Array(proof) == [i \in 1..Len(proof) |-> hexToBytes(proof[i])]

\* levels[levels.length - 1][0], as handleGenerateRootAndProofs reads the root.
RootOf(lvls) == At(lvls[Len(lvls)], 0)

\* JavaScript null, as the component holds it for "no root" and "no proofs":
\* a value that is no 0x string, no list of proofs and not undefined.
Null == <<110, 117, 108, 108>>

\* The leaves memo of the component: [] for no addresses.
leavesMemo(addrs) == IF Len(addrs) = 0 THEN <<>> ELSE buildLeavesFromAddresses(addrs)

\* The proofs object: proofs[addresses[i]] = { leaf, proof } for i ascending,
\* so for an address listed more than once the entry of its last index stays.
proofsObject(addrs, lvs, lvls) ==
    [a \in { addrs[i] : i \in 1..Len(addrs) } |->
        LET i == CHOOSE k \in 1..Len(addrs) :
                     addrs[k] = a /\ \A j \in 1..Len(addrs) : addrs[j] = a => j <= k
        IN  [leaf |-> lvs[i], proof |-> getProofForIndex(lvls, i - 1)]]

\* The handler building and exporting whatever buildMerkleTree returns.
handleGenerateUnguarded(addrs) ==
    LET lvs == leavesMemo(addrs)
        tree == buildMerkleTree(lvs)
    IN  [status |-> "Merkle root & proofs generated.",
         merkleRoot |-> RootOf(tree.levels),
         proofsMap |-> proofsObject(addrs, lvs, tree.levels)]

\* handleGenerateRootAndProofs: what it leaves in status, merkleRoot, proofsMap.
handleGenerateRootAndProofs(addrs) ==
    IF Len(addrs) = 0
    THEN [status |-> "No valid addresses to build tree.",
          merkleRoot |-> Null, proofsMap |-> Null]
    ELSE LET lvs == leavesMemo(addrs)
             tree == buildMerkleTree(lvs)
             root == IF Len(tree.levels) # 0 THEN RootOf(tree.levels) ELSE Null
         IN  IF root = Null \/ root = Undefined
             THEN [status |-> "Failed to compute root.",
                   merkleRoot |-> Null, proofsMap |-> Null]
             ELSE [status |-> "Merkle root & proofs generated.",
                   merkleRoot |-> root,
                   proofsMap |-> proofsObject(addrs, lvs, tree.levels)]

\* ------------------------------------------------ one run of the generator
MerkleIdle ==
    /\ pc = "idle" /\ addresses = <<>> /\ leaves = <<>> /\ level = <<>>
    /\ levels = <<>> /\ proofs = <<>>

MerkleInit(maxLen) ==
    /\ pc = "leaves"
    /\ addresses \in SeqsOf(Addresses, 0, maxLen)
    /\ leaves = <<>> /\ level = <<>> /\ levels = <<>> /\ proofs = <<>>

\* const leaves = buildLeavesFromAddresses(addresses)
BuildLeaves ==
    /\ pc = "leaves"
    /\ leaves' = buildLeavesFromAddresses(addresses)
    /\ pc' = "treeStart"
    /\ UNCHANGED <<addresses, level, levels, proofs, ovars, cvars, uvars, hvars>>

\* buildMerkleTree, entry: level = leaves.slice(); levels = [level]
TreeStart ==
    /\ pc = "treeStart"
    /\ level' = leaves
    /\ levels' = <<leaves>>
    /\ pc' = "treeLoop"
    /\ UNCHANGED <<addresses, leaves, proofs, ovars, cvars, uvars, hvars>>

\* The loop left as soon as two nodes remain (while (level.length > 2)).
TreeStepEarly ==
    /\ pc = "treeLoop"
    /\ IF Len(level) > 2
       THEN /\ level' = NextLevel(level)
            /\ levels' = Append(levels, NextLevel(level))
            /\ pc' = pc
       ELSE /\ pc' = "proofs"
            /\ UNCHANGED <<level, levels>>
    /\ UNCHANGED <<addresses, leaves, proofs, ovars, cvars, uvars, hvars>>

\* buildMerkleTree, one test of the while condition: an iteration, or return
TreeStep ==
    /\ pc = "treeLoop"
    /\ IF Len(level) > 1
       THEN /\ level' = NextLevel(level)
            /\ levels' = Append(levels, NextLevel(level))
            /\ pc' = pc
       ELSE /\ pc' = "proofs"
            /\ UNCHANGED <<level, levels>>
    /\ UNCHANGED <<addresses, leaves, proofs, ovars, cvars, uvars, hvars>>

\* for (i < leaves.length) proof = getProofForIndex(tree.levels, i)
ExtractProofs ==
    /\ pc = "proofs"
    /\ proofs' = [i \in 1..Len(leaves) |-> getProofForIndex(levels, i - 1)]
    /\ pc' = "done"
    /\ UNCHANGED <<addresses, leaves, level, levels, ovars, cvars, uvars, hvars>>

NextMerkle == BuildLeaves \/ TreeStart \/ TreeStep \/ ExtractProofs

\* ------------------------------------------------------------ SimpleVoting
\* The accounts; the first one deploys the contract.
Voters == 9 .. (8 + NVoters)
Deployer == CHOOSE v \in Voters : \A w \in Voters : v <= w

\* Ballot ids the calls name: the ids storage has room for here; the last
\* of them is never created.
BallotIds == DOMAIN ballots
Times == 0 .. MaxTime

\* Candidate names on ballots, and one name that is on none.
CandidateNames == {"Alice", "Bob"}
AllNames == CandidateNames \cup {"Zed"}

\* The zero value of a Ballot struct in storage.
NoBallot ==
    [title |-> "", startTimestamp |-> 0, endTimestamp |-> 0, merkleRoot |-> ZeroRoot,
     candidateNames |-> <<>>, exists |-> FALSE, finalized |-> FALSE]

\* What a call and its outcome look like from outside: "ok" or the revert reason.
Call(op, sender, ballotId, proof, outcome) ==
    [op |-> op, sender |-> sender, ballotId |-> ballotId, proof |-> proof,
     outcome |-> outcome]

\* State after the constructor, with room for ballots 0 .. maxBallots - 1:
\* Ownable sets owner = msg.sender, every mapping holds zero values.
ContractInitOn(maxBallots) ==
    /\ owner = Deployer
    /\ ballots = [b \in 0..maxBallots |-> NoBallot]
    /\ candidateVotes = [b \in 0..maxBallots |-> [i \in 0..(Cardinality(CandidateNames) - 1) |-> 0]]
    /\ hasVoted = [b \in 0..maxBallots |-> [v \in Voters |-> FALSE]]
    /\ nameHashToIdPlusOne = [b \in 0..maxBallots |-> [n \in AllNames |-> 0]]
    /\ nextBallotId = 0
    /\ paused = FALSE
    /\ now = 0
    /\ last = Call("deploy", Deployer, 0, <<>>, "ok")
    /\ endedOnce = {}

ContractInit == ContractInitOn(MaxBallots)

\* The ballots of storage bs whose voting has ended at block time t.
Ended(bs, t) == { b \in BallotIds : bs[b].exists /\ t > bs[b].endTimestamp }

\* 1-based position of the first occurrence of n in names, 0 if absent.
IndexOf(names, n) ==
    IF \E i \in 1..Len(names) : names[i] = n
    THEN CHOOSE i \in 1..Len(names) : names[i] = n /\ \A j \in 1..(i - 1) : names[j] # n
    ELSE 0

\* createBallot without onlyOwner.
createBallotOutcomeNoOwnerCheck(sender, startTimestamp, endTimestamp, names) ==
    IF paused THEN "Pausable: paused"
    ELSE IF ~(startTimestamp < endTimestamp) THEN "Bad time range"
    ELSE IF ~(Len(names) > 0) THEN "Need at least one candidate"
    ELSE IF \E i, j \in 1..Len(names) : i < j /\ names[i] = names[j]
         THEN "Duplicate candidate name"
    ELSE "ok"

\* createBallot: the modifiers and requires in the order they run.
createBallotOutcome(sender, startTimestamp, endTimestamp, names) ==
    IF sender # owner THEN "Ownable: caller is not the owner"
    ELSE IF paused THEN "Pausable: paused"
    ELSE IF ~(startTimestamp < endTimestamp) THEN "Bad time range"
    ELSE IF ~(Len(names) > 0) THEN "Need at least one candidate"
    ELSE IF \E i, j \in 1..Len(names) : i < j /\ names[i] = names[j]
         THEN "Duplicate candidate name"
    ELSE "ok"

\* createBallot without the increment of nextBallotId.
createBallotSameId(sender, title, startTimestamp, endTimestamp, merkleRoot, names) ==
    LET outcome == createBallotOutcome(sender, startTimestamp, endTimestamp, names)
        id == nextBallotId
    IN  /\ nextBallotId + 1 \in BallotIds
        /\ last' = Call("createBallot", sender, id, <<>>, outcome)
        /\ IF outcome = "ok"
           THEN /\ nextBallotId' = nextBallotId
                /\ ballots' = [ballots EXCEPT ![id] =
                       [title |-> title, startTimestamp |-> startTimestamp,
                        endTimestamp |-> endTimestamp, merkleRoot |-> merkleRoot,
                        candidateNames |-> ballots[id].candidateNames \o names,
                        exists |-> TRUE, finalized |-> FALSE]]
                /\ nameHashToIdPlusOne' = [nameHashToIdPlusOne EXCEPT ![id] =
                       [n \in AllNames |->
                          IF IndexOf(names, n) # 0 THEN IndexOf(names, n)
                          ELSE nameHashToIdPlusOne[id][n]]]
           ELSE UNCHANGED <<nextBallotId, ballots, nameHashToIdPlusOne>>
        /\ UNCHANGED <<owner, candidateVotes, hasVoted, paused, now, mvars, ovars, uvars>>
        /\ endedOnce' = endedOnce \cup Ended(ballots', now')

createBallot(sender, title, startTimestamp, endTimestamp, merkleRoot, names) ==
    LET outcome == createBallotOutcome(sender, startTimestamp, endTimestamp, names)
        id == nextBallotId
    IN  /\ nextBallotId + 1 \in BallotIds
        /\ last' = Call("createBallot", sender, id, <<>>, outcome)
        /\ IF outcome = "ok"
           THEN /\ nextBallotId' = nextBallotId + 1
                /\ ballots' = [ballots EXCEPT ![id] =
                       [title |-> title, startTimestamp |-> startTimestamp,
                        endTimestamp |-> endTimestamp, merkleRoot |-> merkleRoot,
                        candidateNames |-> ballots[id].candidateNames \o names,
                        exists |-> TRUE, finalized |-> FALSE]]
                /\ nameHashToIdPlusOne' = [nameHashToIdPlusOne EXCEPT ![id] =
                       [n \in AllNames |->
                          IF IndexOf(names, n) # 0 THEN IndexOf(names, n)
                          ELSE nameHashToIdPlusOne[id][n]]]
           ELSE UNCHANGED <<nextBallotId, ballots, nameHashToIdPlusOne>>
        /\ UNCHANGED <<owner, candidateVotes, hasVoted, paused, now, mvars, ovars, uvars>>
        /\ endedOnce' = endedOnce \cup Ended(ballots', now')

\* vote without the whitelist check.
voteOutcomeNoWhitelist(sender, ballotId, candidateName, merkleProof) ==
    LET b == ballots[ballotId]
    IN  IF ~b.exists THEN "Ballot not found"
        ELSE IF ~(now >= b.startTimestamp) THEN "Voting not started"
        ELSE IF ~(now <= b.endTimestamp) THEN "Voting ended"
        ELSE IF paused THEN "Pausable: paused"
        ELSE IF b.finalized THEN "Ballot finalized"
        ELSE IF hasVoted[ballotId][sender] THEN "Already voted"
        ELSE IF nameHashToIdPlusOne[ballotId][candidateName] = 0 THEN "Candidate not found"
        ELSE "ok"

\* vote without the has-voted check.
voteOutcomeNoReplayCheck(sender, ballotId, candidateName, merkleProof) ==
    LET b == ballots[ballotId]
    IN  IF ~b.exists THEN "Ballot not found"
        ELSE IF ~(now >= b.startTimestamp) THEN "Voting not started"
        ELSE IF ~(now <= b.endTimestamp) THEN "Voting ended"
        ELSE IF paused THEN "Pausable: paused"
        ELSE IF b.finalized THEN "Ballot finalized"
        ELSE IF b.merkleRoot # ZeroRoot
                /\ ~verify(merkleProof, b.merkleRoot, senderLeaf(sender))
             THEN "Not eligible"
        ELSE IF nameHashToIdPlusOne[ballotId][candidateName] = 0 THEN "Candidate not found"
        ELSE "ok"

\* vote verifying the proof also when the stored root is zero.
voteOutcomeAlwaysVerify(sender, ballotId, candidateName, merkleProof) ==
    LET b == ballots[ballotId]
    IN  IF ~b.exists THEN "Ballot not found"
        ELSE IF ~(now >= b.startTimestamp) THEN "Voting not started"
        ELSE IF ~(now <= b.endTimestamp) THEN "Voting ended"
        ELSE IF paused THEN "Pausable: paused"
        ELSE IF b.finalized THEN "Ballot finalized"
        ELSE IF hasVoted[ballotId][sender] THEN "Already voted"
        ELSE IF ~verify(merkleProof, b.merkleRoot, senderLeaf(sender)) THEN "Not eligible"
        ELSE IF nameHashToIdPlusOne[ballotId][candidateName] = 0 THEN "Candidate not found"
        ELSE "ok"

\* vote without whenNotPaused.
voteOutcomeNoPauseCheck(sender, ballotId, candidateName, merkleProof) ==
    LET b == ballots[ballotId]
    IN  IF ~b.exists THEN "Ballot not found"
        ELSE IF ~(now >= b.startTimestamp) THEN "Voting not started"
        ELSE IF ~(now <= b.endTimestamp) THEN "Voting ended"
        ELSE IF b.finalized THEN "Ballot finalized"
        ELSE IF hasVoted[ballotId][sender] THEN "Already voted"
        ELSE IF b.merkleRoot # ZeroRoot
                /\ ~verify(merkleProof, b.merkleRoot, senderLeaf(sender))
             THEN "Not eligible"
        ELSE IF nameHashToIdPlusOne[ballotId][candidateName] = 0 THEN "Candidate not found"
        ELSE "ok"

\* vote without the end of the voting window.
voteOutcomeNoEndCheck(sender, ballotId, candidateName, merkleProof) ==
    LET b == ballots[ballotId]
    IN  IF ~b.exists THEN "Ballot not found"
        ELSE IF ~(now >= b.startTimestamp) THEN "Voting not started"
        ELSE IF paused THEN "Pausable: paused"
        ELSE IF b.finalized THEN "Ballot finalized"
        ELSE IF hasVoted[ballotId][sender] THEN "Already voted"
        ELSE IF b.merkleRoot # ZeroRoot
                /\ ~verify(merkleProof, b.merkleRoot, senderLeaf(sender))
             THEN "Not eligible"
        ELSE IF nameHashToIdPlusOne[ballotId][candidateName] = 0 THEN "Candidate not found"
        ELSE "ok"

\* vote without the finalized check.
voteOutcomeNoFinalizedCheck(sender, ballotId, candidateName, merkleProof) ==
    LET b == ballots[ballotId]
    IN  IF ~b.exists THEN "Ballot not found"
        ELSE IF ~(now >= b.startTimestamp) THEN "Voting not started"
        ELSE IF ~(now <= b.endTimestamp) THEN "Voting ended"
        ELSE IF paused THEN "Pausable: paused"
        ELSE IF hasVoted[ballotId][sender] THEN "Already voted"
        ELSE IF b.merkleRoot # ZeroRoot
                /\ ~verify(merkleProof, b.merkleRoot, senderLeaf(sender))
             THEN "Not eligible"
        ELSE IF nameHashToIdPlusOne[ballotId][candidateName] = 0 THEN "Candidate not found"
        ELSE "ok"

\* vote: ballotExists, duringVoting, whenNotPaused, then the requires of the body.
voteOutcome(sender, ballotId, candidateName, merkleProof) ==
    LET b == ballots[ballotId]
    IN  IF ~b.exists THEN "Ballot not found"
        ELSE IF ~(now >= b.startTimestamp) THEN "Voting not started"
        ELSE IF ~(now <= b.endTimestamp) THEN "Voting ended"
        ELSE IF paused THEN "Pausable: paused"
        ELSE IF b.finalized THEN "Ballot finalized"
        ELSE IF hasVoted[ballotId][sender] THEN "Already voted"
        ELSE IF b.merkleRoot # ZeroRoot
                /\ ~verify(merkleProof, b.merkleRoot, senderLeaf(sender))
             THEN "Not eligible"
        ELSE IF nameHashToIdPlusOne[ballotId][candidateName] = 0 THEN "Candidate not found"
        ELSE "ok"

\* vote counting every vote for the first candidate.
voteTallyFirst(sender, ballotId, candidateName, merkleProof) ==
    LET outcome == voteOutcome(sender, ballotId, candidateName, merkleProof)
    IN  /\ last' = Call("vote", sender, ballotId, merkleProof, outcome)
        /\ IF outcome = "ok"
           THEN /\ candidateVotes' = [candidateVotes EXCEPT ![ballotId][0] = @ + 1]
                /\ hasVoted' = [hasVoted EXCEPT ![ballotId][sender] = TRUE]
           ELSE UNCHANGED <<candidateVotes, hasVoted>>
        /\ UNCHANGED <<owner, ballots, nameHashToIdPlusOne, nextBallotId, paused, now, mvars, ovars, uvars>>
        /\ endedOnce' = endedOnce \cup Ended(ballots', now')

\* vote marking every address of the ballot as having voted.
voteMarksAll(sender, ballotId, candidateName, merkleProof) ==
    LET outcome == voteOutcome(sender, ballotId, candidateName, merkleProof)
        id == nameHashToIdPlusOne[ballotId][candidateName] - 1
    IN  /\ last' = Call("vote", sender, ballotId, merkleProof, outcome)
        /\ IF outcome = "ok"
           THEN /\ candidateVotes' = [candidateVotes EXCEPT ![ballotId][id] = @ + 1]
                /\ hasVoted' = [hasVoted EXCEPT ![ballotId] = [v \in Voters |-> TRUE]]
           ELSE UNCHANGED <<candidateVotes, hasVoted>>
        /\ UNCHANGED <<owner, ballots, nameHashToIdPlusOne, nextBallotId, paused, now, mvars, ovars, uvars>>
        /\ endedOnce' = endedOnce \cup Ended(ballots', now')

vote(sender, ballotId, candidateName, merkleProof) ==
    LET outcome == voteOutcome(sender, ballotId, candidateName, merkleProof)
        id == nameHashToIdPlusOne[ballotId][candidateName] - 1
    IN  /\ last' = Call("vote", sender, ballotId, merkleProof, outcome)
        /\ IF outcome = "ok"
           THEN /\ candidateVotes' = [candidateVotes EXCEPT ![ballotId][id] = @ + 1]
                /\ hasVoted' = [hasVoted EXCEPT ![ballotId][sender] = TRUE]
           ELSE UNCHANGED <<candidateVotes, hasVoted>>
        /\ UNCHANGED <<owner, ballots, nameHashToIdPlusOne, nextBallotId, paused, now, mvars, ovars, uvars>>
        /\ endedOnce' = endedOnce \cup Ended(ballots', now')

\* finalizeBallot without the end-of-voting check for callers other than the owner.
finalizeBallotOutcomeNoTimeCheck(sender, ballotId) ==
    LET b == ballots[ballotId]
    IN  IF ~b.exists THEN "Ballot not found"
        ELSE IF b.finalized THEN "Already finalized"
        ELSE "ok"

\* finalizeBallot: ballotExists, then the requires of the body.
finalizeBallotOutcome(sender, ballotId) ==
    LET b == ballots[ballotId]
    IN  IF ~b.exists THEN "Ballot not found"
        ELSE IF b.finalized THEN "Already finalized"
        ELSE IF sender # owner /\ ~(now > b.endTimestamp) THEN "Voting not ended"
        ELSE "ok"

finalizeBallot(sender, ballotId) ==
    LET outcome == finalizeBallotOutcome(sender, ballotId)
    IN  /\ last' = Call("finalizeBallot", sender, ballotId, <<>>, outcome)
        /\ IF outcome = "ok"
           THEN ballots' = [ballots EXCEPT ![ballotId].finalized = TRUE]
           ELSE UNCHANGED ballots
        /\ UNCHANGED <<owner, candidateVotes, hasVoted, nameHashToIdPlusOne,
                       nextBallotId, paused, now, mvars, ovars, uvars>>
        /\ endedOnce' = endedOnce \cup Ended(ballots', now')

\* extendBallotEnd without whenNotPaused.
extendBallotEndOutcomeNoPauseCheck(sender, ballotId, newEndTimestamp) ==
    LET b == ballots[ballotId]
    IN  IF sender # owner THEN "Ownable: caller is not the owner"
        ELSE IF ~b.exists THEN "Ballot not found"
        ELSE IF b.finalized THEN "Already finalized"
        ELSE IF ~(newEndTimestamp > b.endTimestamp) THEN "New end must be later"
        ELSE "ok"

\* extendBallotEnd: onlyOwner, ballotExists, whenNotPaused, then the body.
extendBallotEndOutcome(sender, ballotId, newEndTimestamp) ==
    LET b == ballots[ballotId]
    IN  IF sender # owner THEN "Ownable: caller is not the owner"
        ELSE IF ~b.exists THEN "Ballot not found"
        ELSE IF paused THEN "Pausable: paused"
        ELSE IF b.finalized THEN "Already finalized"
        ELSE IF ~(newEndTimestamp > b.endTimestamp) THEN "New end must be later"
        ELSE "ok"

extendBallotEnd(sender, ballotId, newEndTimestamp) ==
    LET outcome == extendBallotEndOutcome(sender, ballotId, newEndTimestamp)
    IN  /\ last' = Call("extendBallotEnd", sender, ballotId, <<>>, outcome)
        /\ IF outcome = "ok"
           THEN ballots' = [ballots EXCEPT ![ballotId].endTimestamp = newEndTimestamp]
           ELSE UNCHANGED ballots
        /\ UNCHANGED <<owner, candidateVotes, hasVoted, nameHashToIdPlusOne,
                       nextBallotId, paused, now, mvars, ovars, uvars>>
        /\ endedOnce' = endedOnce \cup Ended(ballots', now')

\* updateMerkleRoot without the finalized check.
updateMerkleRootOutcomeNoFinalCheck(sender, ballotId) ==
    LET b == ballots[ballotId]
    IN  IF sender # owner THEN "Ownable: caller is not the owner"
        ELSE IF ~b.exists THEN "Ballot not found"
        ELSE IF paused THEN "Pausable: paused"
        ELSE "ok"

\* updateMerkleRoot: onlyOwner, ballotExists, whenNotPaused, then the body.
updateMerkleRootOutcome(sender, ballotId) ==
    LET b == ballots[ballotId]
    IN  IF sender # owner THEN "Ownable: caller is not the owner"
        ELSE IF ~b.exists THEN "Ballot not found"
        ELSE IF paused THEN "Pausable: paused"
        ELSE IF b.finalized THEN "Already finalized"
        ELSE "ok"

\* updateMerkleRoot starting the count again under the new root.
updateMerkleRootClearVotes(sender, ballotId, newRoot) ==
    LET outcome == updateMerkleRootOutcome(sender, ballotId)
    IN  /\ last' = Call("updateMerkleRoot", sender, ballotId, <<>>, outcome)
        /\ IF outcome = "ok"
           THEN /\ ballots' = [ballots EXCEPT ![ballotId].merkleRoot = newRoot]
                /\ candidateVotes' = [candidateVotes EXCEPT ![ballotId] =
                       [i \in DOMAIN candidateVotes[ballotId] |-> 0]]
                /\ hasVoted' = [hasVoted EXCEPT ![ballotId] = [v \in Voters |-> FALSE]]
           ELSE UNCHANGED <<ballots, candidateVotes, hasVoted>>
        /\ UNCHANGED <<owner, nameHashToIdPlusOne, nextBallotId, paused, now,
                       mvars, ovars, uvars>>
        /\ endedOnce' = endedOnce \cup Ended(ballots', now')

updateMerkleRoot(sender, ballotId, newRoot) ==
    LET outcome == updateMerkleRootOutcome(sender, ballotId)
    IN  /\ last' = Call("updateMerkleRoot", sender, ballotId, <<>>, outcome)
        /\ IF outcome = "ok"
           THEN ballots' = [ballots EXCEPT ![ballotId].merkleRoot = newRoot]
           ELSE UNCHANGED ballots
        /\ UNCHANGED <<owner, candidateVotes, hasVoted, nameHashToIdPlusOne,
                       nextBallotId, paused, now, mvars, ovars, uvars>>
        /\ endedOnce' = endedOnce \cup Ended(ballots', now')

\* The array getResults builds for a ballot, read from storage bs and
\* tallies cv: res[i] = candidateVotes[ballotId][i] for i < candidateNames.length.
resultsOf(bs, cv, ballotId) ==
    [i \in 1 .. Len(bs[ballotId].candidateNames) |-> cv[ballotId][i - 1]]

\* getResults(ballotId) on an existing ballot (it reverts with "Ballot not
\* found" otherwise).
getResults(ballotId) == resultsOf(ballots, candidateVotes, ballotId)

\* getWinners, first loop: the largest tally among candidates 0 .. i-1.
RECURSIVE maxVotesUpTo(_, _)
maxVotesUpTo(ballotId, i) ==
    IF i = 0 THEN 0
    ELSE LET maxVotes == maxVotesUpTo(ballotId, i - 1)
             v == candidateVotes[ballotId][i - 1]
         IN  IF v > maxVotes THEN v ELSE maxVotes

\* Only the first candidate that reaches maxVotes is reported.
RECURSIVE winnersFirstOnly(_, _, _)
winnersFirstOnly(ballotId, i, maxVotes) ==
    IF i = 0 THEN <<>>
    ELSE LET names == winnersFirstOnly(ballotId, i - 1, maxVotes)
         IN  IF candidateVotes[ballotId][i - 1] = maxVotes /\ names = <<>>
             THEN Append(names, ballots[ballotId].candidateNames[i])
             ELSE names

\* getWinners, last loop: the names of candidates 0 .. i-1 whose tally is
\* maxVotes, in index order.
RECURSIVE winnersUpTo(_, _, _)
winnersUpTo(ballotId, i, maxVotes) ==
    IF i = 0 THEN <<>>
    ELSE LET names == winnersUpTo(ballotId, i - 1, maxVotes)
         IN  IF candidateVotes[ballotId][i - 1] = maxVotes
             THEN Append(names, ballots[ballotId].candidateNames[i])
             ELSE names

\* getWinners(ballotId): the revert reason, or "ok" with (winners, winningVotes).
getWinners(ballotId) ==
    LET b == ballots[ballotId]
        n == Len(b.candidateNames)
        maxVotes == maxVotesUpTo(ballotId, n)
    IN  IF ~b.exists
        THEN [outcome |-> "Ballot not found", winners |-> <<>>, winningVotes |-> 0]
        ELSE IF ~b.finalized
        THEN [outcome |-> "Ballot not finalized", winners |-> <<>>, winningVotes |-> 0]
        ELSE IF n = 0 THEN [outcome |-> "ok", winners |-> <<>>, winningVotes |-> 0]
        ELSE IF maxVotes = 0 THEN [outcome |-> "ok", winners |-> <<>>, winningVotes |-> 0]
        ELSE [outcome |-> "ok", winners |-> winnersUpTo(ballotId, n, maxVotes),
              winningVotes |-> maxVotes]

\* pause: onlyOwner, then Pausable._pause (whenNotPaused).
pause(sender) ==
    LET outcome == IF sender # owner THEN "Ownable: caller is not the owner"
                   ELSE IF paused THEN "Pausable: paused"
                   ELSE "ok"
    IN  /\ last' = Call("pause", sender, 0, <<>>, outcome)
        /\ paused' = IF outcome = "ok" THEN TRUE ELSE paused
        /\ UNCHANGED <<owner, ballots, candidateVotes, hasVoted, nameHashToIdPlusOne,
                       nextBallotId, now, mvars, ovars, uvars>>
        /\ endedOnce' = endedOnce \cup Ended(ballots', now')

\* unpause: onlyOwner, then Pausable._unpause (whenPaused).
unpause(sender) ==
    LET outcome == IF sender # owner THEN "Ownable: caller is not the owner"
                   ELSE IF ~paused THEN "Pausable: not paused"
                   ELSE "ok"
    IN  /\ last' = Call("unpause", sender, 0, <<>>, outcome)
        /\ paused' = IF outcome = "ok" THEN FALSE ELSE paused
        /\ UNCHANGED <<owner, ballots, candidateVotes, hasVoted, nameHashToIdPlusOne,
                       nextBallotId, now, mvars, ovars, uvars>>
        /\ endedOnce' = endedOnce \cup Ended(ballots', now')

\* address(0), the owner after renounceOwnership.
ZeroAddress == 0

\* Ownable.transferOwnership: onlyOwner, new owner not the zero address.
transferOwnership(sender, newOwner) ==
    LET outcome == IF sender # owner THEN "Ownable: caller is not the owner"
                   ELSE IF newOwner = ZeroAddress
                        THEN "Ownable: new owner is the zero address"
                   ELSE "ok"
    IN  /\ last' = Call("transferOwnership", sender, 0, <<>>, outcome)
        /\ owner' = IF outcome = "ok" THEN newOwner ELSE owner
        /\ UNCHANGED <<ballots, candidateVotes, hasVoted, nameHashToIdPlusOne,
                       nextBallotId, paused, now, mvars, ovars, uvars>>
        /\ endedOnce' = endedOnce \cup Ended(ballots', now')

\* Ownable.renounceOwnership: onlyOwner, leaves the contract without owner.
renounceOwnership(sender) ==
    LET outcome == IF sender # owner THEN "Ownable: caller is not the owner" ELSE "ok"
    IN  /\ last' = Call("renounceOwnership", sender, 0, <<>>, outcome)
        /\ owner' = IF outcome = "ok" THEN ZeroAddress ELSE owner
        /\ UNCHANGED <<ballots, candidateVotes, hasVoted, nameHashToIdPlusOne,
                       nextBallotId, paused, now, mvars, ovars, uvars>>
        /\ endedOnce' = endedOnce \cup Ended(ballots', now')

\* block.timestamp advances between transactions.
Tick ==
    /\ now < MaxTime
    /\ now' = now + 1
    /\ last' = Call("tick", Deployer, 0, <<>>, "ok")
    /\ UNCHANGED <<owner, ballots, candidateVotes, hasVoted, nameHashToIdPlusOne,
                   nextBallotId, paused, mvars, ovars, uvars>>
    /\ endedOnce' = endedOnce \cup Ended(ballots', now')

\* ------------------------------------------------------ pair rule, two sides
\* The characters that denote a digit: one for 0..9, two for a..f.
CharsOf(n) == IF n < 10 THEN {48 + n} ELSE {87 + n, 55 + n}

\* Hex strings, in every mix of upper and lower case, that denote the bytes d.
RECURSIVE DigitForms(_)
DigitForms(d) ==
    IF d = <<>> THEN {<<>>}
    ELSE { <<c>> \o r : c \in CharsOf(Head(d)), r \in DigitForms(Tail(d)) }

HexForms(d) == { <<48, 120>> \o f : f \in DigitForms(d) }

\* The digests the pair rule is tried on: bytes32(0), a digest of unknown
\* preimage, the leaves, and the parents of two leaves in either order.
LeafDigests == { keccak256(<<a>>) : a \in Addresses }
OrderDigests ==
    {ZeroRoot, <<1>>} \cup LeafDigests
        \cup { keccak256(x \o y) : x \in LeafDigests, y \in LeafDigests }

NoParents ==
    [builderFirst |-> <<>>, builderParent |-> <<>>,
     verifierFirst |-> <<>>, verifierParent |-> <<>>]

OrderIdle == hexA = <<>> /\ hexB = <<>> /\ parents = NoParents

OrderInit ==
    /\ hexA \in UNION { HexForms(d) : d \in OrderDigests }
    /\ hexB \in UNION { HexForms(d) : d \in OrderDigests }
    /\ parents = NoParents

\* The builder's loop body on (hexA, hexB), and the verifier's _hashPair on the
\* bytes the two strings denote.
CombineBoth ==
    /\ parents = NoParents
    /\ parents' = [builderFirst |-> hexToBytes(orderedPair(hexA, hexB)[1]),
                   builderParent |-> hexToBytes(combine(hexA, hexB)),
                   verifierFirst |-> sortedPair(hexToBytes(hexA), hexToBytes(hexB))[1],
                   verifierParent |-> hashPair(hexToBytes(hexA), hexToBytes(hexB))]
    /\ UNCHANGED <<hexA, hexB, mvars, cvars, uvars, hvars>>

\* ------------------------------------------------- Vote page and RPC retry
\* Nothing handed to contract.vote.
NotSent == [sent |-> FALSE, proof |-> <<>>]

\* The Vote page before a proof is handed over or typed.
PageIdle ==
    /\ ppc = "idle" /\ resultProof = <<>> /\ merkleProofText = <<>>
    /\ proofSent = NotSent /\ voteStatus = ""

\* No call of withRetries under way.
RetryIdle ==
    /\ rpc = "idle" /\ retries = 0 /\ initialDelay = 0 /\ attempt = 0
    /\ delay = 0 /\ calls = 0 /\ waits = <<>> /\ thrown = <<>>

\* Bounds of the Vote page: entries of a looked-up proof, hex digits of one
\* entry, and characters of a typed proof text.
MaxEntries == 2
MaxDigits == 2
MaxTextLen == 4

\* The separator of the proof text, and the characters String.trim removes
\* (space and tab stand for the white space class).
Comma == 44
WhiteSpace == {32, 9}

\* Array.join(","): the entries in order, one comma between neighbours.
RECURSIVE join(_)
join(P) ==
    IF P = <<>> THEN <<>>
    ELSE IF Len(P) = 1 THEN P[1]
    ELSE P[1] \o <<Comma>> \o join(Tail(P))

\* String.split(","): the pieces between commas; a text without a comma
\* (the empty text too) is one piece.
RECURSIVE split(_)
split(text) ==
    LET cs == { i \in 1..Len(text) : text[i] = Comma }
    IN  IF cs = {} THEN <<text>>
        ELSE LET i == CHOOSE c \in cs : \A d \in cs : c <= d
             IN  <<SubSeq(text, 1, i - 1)>> \o split(SubSeq(text, i + 1, Len(text)))

\* String.trim: white space removed at both ends.
trim(str) ==
    LET ns == { i \in 1..Len(str) : str[i] \notin WhiteSpace }
    IN  IF ns = {} THEN <<>>
        ELSE SubSeq(str, CHOOSE a \in ns : \A b \in ns : a <= b,
                         CHOOSE a \in ns : \A b \in ns : a >= b)

\* .map(s => s.trim()).filter(Boolean): pieces trimmed, empty ones dropped.
trimmedParts(text) ==
    LET pieces == split(text)
        trimmed == [i \in 1..Len(pieces) |-> trim(pieces[i])]
    IN  SelectSeq(trimmed, LAMBDA q : q # <<>>)

\* The regular expression /^0x[0-9a-fA-F]+$/ .
HexChars == (48..57) \cup (97..102) \cup (65..70)
isHexEntry(q) ==
    /\ Len(q) >= 3
    /\ q[1] = 48 /\ q[2] = 120
    /\ \A i \in 3..Len(q) : q[i] \in HexChars

\* parseProof without the test of its entries.
parseProofUnchecked(text) ==
    IF text = <<>> THEN [threw |-> FALSE, parts |-> <<>>]
    ELSE [threw |-> FALSE, parts |-> trimmedParts(text)]

\* parseProof: the empty text is the empty proof; otherwise the trimmed
\* non-blank pieces, or an exception when one of them is not 0x-hex.
parseProof(text) ==
    IF text = <<>> THEN [threw |-> FALSE, parts |-> <<>>]
    ELSE LET parts == trimmedParts(text)
             ok == \A i \in 1..Len(parts) : isHexEntry(parts[i])
         IN  IF ~ok THEN [threw |-> TRUE, parts |-> <<>>]
             ELSE [threw |-> FALSE, parts |-> parts]

\* The entries a looked-up proof is made of here: 0x and up to MaxDigits hex
\* digits, in lower and upper case.
ProofEntries == { <<48, 120>> \o d : d \in SeqsOf({48, 97, 70}, 1, MaxDigits) }
ProofLists == SeqsOf(ProofEntries, 0, MaxEntries)

\* The texts a user types: hex entries, commas, blanks and a non-hex letter.
TextChars == {48, 120, 97, 70, Comma, 32, 103}
Texts == SeqsOf(TextChars, 0, MaxTextLen)

\* The lookup page showing the proof of one address.
PageInit ==
    /\ ppc = "lookup" /\ resultProof \in ProofLists /\ merkleProofText = <<>>
    /\ proofSent = NotSent /\ voteStatus = ""

\* handleCopyProof / handleUseInVote join the proof with commas, and the
\* input of the Vote page receives that text.
handleUseInVote ==
    /\ ppc = "lookup"
    /\ merkleProofText' = join(resultProof)
    /\ ppc' = "vote"
    /\ UNCHANGED <<resultProof, proofSent, voteStatus, rvars, mvars, ovars, cvars, hvars>>

\* The user types the proof text instead.
setMerkleProofText(text) ==
    /\ ppc = "lookup" /\ resultProof = <<>>
    /\ merkleProofText' = text
    /\ ppc' = "vote"
    /\ UNCHANGED <<resultProof, proofSent, voteStatus, rvars, mvars, ovars, cvars, hvars>>

\* The try block of submitVote: the proof is parsed, then contract.vote is
\* called with it; an exception of parseProof ends in "Vote failed".
submitVote ==
    /\ ppc = "vote"
    /\ LET proof == parseProof(merkleProofText)
       IN  IF proof.threw
           THEN /\ voteStatus' = "Vote failed"
                /\ UNCHANGED proofSent
           ELSE /\ proofSent' = [sent |-> TRUE, proof |-> proof.parts]
                /\ voteStatus' = "Transaction submitted"
    /\ ppc' = "done"
    /\ UNCHANGED <<resultProof, merkleProofText, rvars, mvars, ovars, cvars, hvars>>

NextProof ==
    \/ handleUseInVote
    \/ \E text \in Texts : setMerkleProofText(text)
    \/ submitVote

\* Bounds of one call of withRetries: the retries asked for and the first
\* delay.
MaxRetries == 3
MaxDelay == 2

\* String.includes: sub occurs in str.
includes(str, sub) ==
    \E i \in 1 .. (Len(str) - Len(sub) + 1) :
        SubSeq(str, i, i + Len(sub) - 1) = sub

\* The texts the classification looks for.
TooManyRequests == <<84, 111, 111, 32, 77, 97, 110, 121, 32, 82, 101, 113, 117, 101, 115, 116, 115>>
Status429 == <<52, 50, 57>>
MissingResponse == <<109, 105, 115, 115, 105, 110, 103, 32, 114, 101, 115, 112, 111, 110, 115, 101>>
Rate == <<114, 97, 116, 101>>
Timeout == <<116, 105, 109, 101, 111, 117, 116>>

\* The classification of an error message by withRetries.
retriable(msg) ==
    \/ includes(msg, TooManyRequests)
    \/ includes(msg, Status429)
    \/ includes(msg, MissingResponse)
    \/ includes(toLowerCase(msg), Rate)
    \/ includes(toLowerCase(msg), Timeout)

\* The messages fn fails with: "Too Many Requests", "HTTP 429", "missing
\* response", "Rate limit", "TIMEOUT", and two that are not retriable,
\* "reverted" and "Missing Response".
ErrorMessages ==
    { TooManyRequests, <<72, 84, 84, 80, 32, 52, 50, 57>>, MissingResponse, <<82, 97, 116, 101, 32, 108, 105, 109, 105, 116>>, <<84, 73, 77, 69, 79, 85, 84>>, <<114, 101, 118, 101, 114, 116, 101, 100>>, <<77, 105, 115, 115, 105, 110, 103, 32, 82, 101, 115, 112, 111, 110, 115, 101>> }

\* withRetries(fn, {retries, initialDelay}) entered: attempt = 0,
\* delay = initialDelay, fn about to be called.
RetryInit ==
    /\ rpc = "call"
    /\ retries \in 0..MaxRetries /\ initialDelay \in 1..MaxDelay
    /\ attempt = 0 /\ delay = initialDelay
    /\ calls = 0 /\ waits = <<>> /\ thrown = <<>>

\* try { return await fn(); } with fn succeeding.
fnReturns ==
    /\ rpc = "call"
    /\ calls' = calls + 1
    /\ rpc' = "returned"
    /\ UNCHANGED <<retries, initialDelay, attempt, delay, waits, thrown,
                   pvars, mvars, ovars, cvars, hvars>>

\* fn failing with msg: the catch block up to the rethrow or the wait.
fnThrows(msg) ==
    /\ rpc = "call"
    /\ calls' = calls + 1
    /\ attempt' = attempt + 1
    /\ thrown' = msg
    /\ rpc' = IF ~retriable(msg) \/ attempt' > retries THEN "thrown" ELSE "wait"
    /\ UNCHANGED <<retries, initialDelay, delay, waits, pvars, mvars, ovars, cvars, hvars>>

\* The wait without the doubling of the delay.
sleepConstant ==
    /\ rpc = "wait"
    /\ waits' = Append(waits, delay)
    /\ rpc' = "call"
    /\ UNCHANGED <<retries, initialDelay, attempt, delay, calls, thrown,
                   pvars, mvars, ovars, cvars, hvars>>

\* await new Promise(r => setTimeout(r, delay)); delay *= 2; and round again.
sleep ==
    /\ rpc = "wait"
    /\ waits' = Append(waits, delay)
    /\ delay' = delay * 2
    /\ rpc' = "call"
    /\ UNCHANGED <<retries, initialDelay, attempt, calls, thrown,
                   pvars, mvars, ovars, cvars, hvars>>

NextRetry ==
    \/ fnReturns
    \/ \E msg \in ErrorMessages : fnThrows(msg)
    \/ sleep

\* ----------------------------------------------------------- specifications
\* One run of the generator on every address list up to MaxLen.
InitMerkle == MerkleInit(MaxLen) /\ OrderIdle /\ ContractInit /\ PageIdle /\ RetryIdle
SpecMerkle == InitMerkle /\ [][NextMerkle]_vars

\* One run of the generator on every address list up to MaxForgeLen, whose
\* root is then attacked with foreign and tampered proofs.
InitForge == MerkleInit(MaxForgeLen) /\ OrderIdle /\ ContractInit /\ PageIdle /\ RetryIdle
SpecForge == InitForge /\ [][NextMerkle]_vars

\* The pair rule applied on both sides.
InitOrder == OrderInit /\ MerkleIdle /\ ContractInit /\ PageIdle /\ RetryIdle
SpecOrder == InitOrder /\ [][CombineBoth]_vars

\* Whitelists given to the contract: the first n accounts, n = 1..NVoters.
WhiteLists == { [i \in 1..n |-> 8 + i] : n \in 1..NVoters }

\* The tree the generator builds for a list, its root and proofs as the
\* contract receives them (bytes32).
TreeOf(l) == buildMerkleTree(buildLeavesFromAddresses(l)).levels
RootBytes(l) == hexToBytes(RootOf(TreeOf(l)))
ProofBytes(l, i) == toBytes32Array(getProofForIndex(TreeOf(l), i - 1))

RootChoices == {ZeroRoot, <<1>>} \cup { RootBytes(l) : l \in WhiteLists }
ProofChoices ==
    {<<>>, << <<1>> >>} \cup { ProofBytes(l, i) : l \in WhiteLists, i \in 1..NVoters }
CandidateLists == { <<>>, <<"Alice">>, <<"Alice", "Bob">>, <<"Alice", "Alice">> }

NextVote ==
    \/ \E s \in Voters, st \in Times, en \in Times, r \in RootChoices, c \in CandidateLists :
          createBallot(s, "Election", st, en, r, c)
    \/ \E s \in Voters, b \in BallotIds, n \in AllNames, p \in ProofChoices :
          vote(s, b, n, p)
    \/ \E s \in Voters, b \in BallotIds : finalizeBallot(s, b)
    \/ \E s \in Voters, b \in BallotIds, en \in Times : extendBallotEnd(s, b, en)
    \/ \E s \in Voters, b \in BallotIds, r \in RootChoices : updateMerkleRoot(s, b, r)
    \/ \E s \in Voters : pause(s)
    \/ \E s \in Voters : unpause(s)
    \/ Tick

InitVote == ContractInit /\ MerkleIdle /\ OrderIdle /\ PageIdle /\ RetryIdle
SpecVote == InitVote /\ [][NextVote]_vars

\* The administration of the contract, with the ownership functions it
\* inherits from Ownable; votes, which no owner check guards, are left out.
NextOwner ==
    \/ \E s \in Voters, st \in Times, en \in Times, r \in RootChoices, c \in CandidateLists :
          createBallot(s, "Election", st, en, r, c)
    \/ \E s \in Voters, b \in BallotIds : finalizeBallot(s, b)
    \/ \E s \in Voters, b \in BallotIds, en \in Times : extendBallotEnd(s, b, en)
    \/ \E s \in Voters, b \in BallotIds, r \in RootChoices : updateMerkleRoot(s, b, r)
    \/ \E s \in Voters : pause(s)
    \/ \E s \in Voters : unpause(s)
    \/ Tick
    \/ \E s \in Voters, n \in Voters \cup {ZeroAddress} : transferOwnership(s, n)
    \/ \E s \in Voters : renounceOwnership(s)

SpecOwner == InitVote /\ [][NextOwner]_vars

\* The owner and another account creating up to MaxIds ballots, well-formed
\* and not, on a contract that is paused and unpaused in between.
NextIds ==
    \/ \E s \in Voters, st \in Times, en \in Times, c \in CandidateLists :
          createBallot(s, "Election", st, en, ZeroRoot, c)
    \/ \E s \in Voters : pause(s)
    \/ \E s \in Voters : unpause(s)

InitIds == ContractInitOn(MaxIds) /\ MerkleIdle /\ OrderIdle /\ PageIdle /\ RetryIdle
SpecIds == InitIds /\ [][NextIds]_vars

\* The Vote page on every looked-up proof and every typed text.
InitProof == PageInit /\ RetryIdle /\ MerkleIdle /\ OrderIdle /\ ContractInit
SpecProof == InitProof /\ [][NextProof]_vars

\* One call of withRetries for every number of retries and first delay, fn
\* succeeding or failing with each message at each call.
InitRetry == RetryInit /\ PageIdle /\ MerkleIdle /\ OrderIdle /\ ContractInit
SpecRetry == InitRetry /\ [][NextRetry]_vars

\* ================================================================== claims
\* The elements of a sequence.
Range(q) == { q[i] : i \in 1..Len(q) }

\* The root of the tree just built, as the contract stores it.
BuiltRoot == hexToBytes(RootOf(levels))

\* C1. Round trip: once the generator has run on a non-empty address list,
\* the proof it extracted for every index i makes the sorted-pair verification
\* of leaves[i] (MerkleProof.verify, as vote calls it) reproduce the root.
C1_RoundTrip ==
    pc = "done" /\ Len(addresses) >= 1 =>
        \A i \in 1..Len(leaves) :
            /\ proofs[i] = getProofForIndex(buildMerkleTree(leaves).levels, i - 1)
            /\ verify(toBytes32Array(proofs[i]), BuiltRoot, hexToBytes(leaves[i]))

\* A list of five addresses with a repeated one (odd at levels 0 and 1) whose
\* last, unpaired leaf verifies.
C1_Witness ==
    /\ pc = "done" /\ Len(addresses) = 5
    /\ \E i, j \in 1..5 : i # j /\ addresses[i] = addresses[j]
    /\ Len(levels[2]) = 3
    /\ verify(toBytes32Array(proofs[5]), BuiltRoot, hexToBytes(leaves[5]))

\* The digests an attacker draws proof elements from: bytes32(0), a digest of
\* unknown preimage, every address's leaf and every node of the tree.
TreeNodes == UNION { { hexToBytes(levels[l][k]) : k \in 1..Len(levels[l]) } : l \in 1..Len(levels) }
ForgeDigests == {ZeroRoot, <<1>>} \cup LeafDigests \cup TreeNodes
ForgedProofs == SeqsOf(ForgeDigests, 0, MaxProofLen)

\* C2. Negative case: against the root built from the address list,
\* (a) the leaf of an address that is not in the list is rejected with every
\* proof of up to MaxProofLen digests, and (b) a member's leaf with its own
\* proof, one element of which is replaced by a different digest, is rejected.
C2_Negative ==
    pc = "done" /\ Len(addresses) >= 1 =>
        /\ \A x \in Addresses \ Range(addresses) : \A p \in ForgedProofs :
              ~verify(p, BuiltRoot, senderLeaf(x))
        /\ \A i \in 1..Len(addresses) : \A k \in 1..Len(proofs[i]) :
              \A d \in ForgeDigests \ {hexToBytes(proofs[i][k])} :
                ~verify([toBytes32Array(proofs[i]) EXCEPT ![k] = d], BuiltRoot,
                        senderLeaf(addresses[i]))

\* A three-leaf tree with an address outside the list, whose own proofs
\* have elements to tamper with.
C2_Witness ==
    /\ pc = "done" /\ Len(addresses) = 3
    /\ Addresses \ Range(addresses) # {}
    /\ Len(proofs[1]) = 2
    /\ verify(toBytes32Array(proofs[1]), BuiltRoot, senderLeaf(addresses[1]))
    /\ ~verify(toBytes32Array(proofs[1]), BuiltRoot,
               senderLeaf(CHOOSE x \in Addresses : x \notin Range(addresses)))

\* C7. The pair rule is the same function on both sides: for hex strings in
\* any mix of case, the element the builder puts first (lower-cased strings
\* compared with <=) denotes the bytes the verifier puts first (bytes32 <),
\* and the two parents are the same digest.
C7_PairRuleAgrees ==
    parents # NoParents =>
        /\ parents.builderFirst = parents.verifierFirst
        /\ parents.builderParent = parents.verifierParent

\* A pair whose order as raw strings is the opposite of its order as bytes
\* (upper against lower case), combined on both sides.
C7_Witness ==
    /\ parents # NoParents
    /\ hexToBytes(hexA) # hexToBytes(hexB)
    /\ StrLE(hexA, hexB) /\ ~StrLE(toLowerCase(hexA), toLowerCase(hexB))
    /\ parents.builderFirst = hexToBytes(hexB)

\* C8. In the tree buildMerkleTree returns, levels[0] is the leaf list as
\* given and every level above has ceil(n / 2) nodes of the n below it.
C8_LevelShape ==
    pc \in {"proofs", "done"} =>
        /\ levels[1] = leaves
        /\ \A i \in 1..(Len(levels) - 1) :
              Len(levels[i + 1]) = (Len(levels[i]) + 1) \div 2

\* Five leaves: levels of 5, 3, 2 and 1 nodes.
C8_Witness ==
    /\ pc = "done" /\ Len(leaves) = 5 /\ Len(levels) = 4
    /\ Len(levels[2]) = 3 /\ Len(levels[3]) = 2

\* C9. For every non-empty leaf list buildMerkleTree terminates, and the last
\* level of the tree it returns holds exactly one digest: every test of the
\* while condition either runs an iteration that leaves a strictly shorter,
\* non-empty level (so at most Len(leaves) - 1 iterations run), or returns
\* with a last level of one digest.
C9_TerminatesWithRoot ==
    /\ [][pc = "treeLoop" /\ Len(leaves) >= 1 =>
            IF Len(level) > 1
            THEN pc' = "treeLoop" /\ Len(level') >= 1 /\ Len(level') < Len(level)
            ELSE pc' = "proofs" /\ levels' = levels /\ Len(levels[Len(levels)]) = 1]_vars
    /\ [](pc \in {"proofs", "done"} /\ Len(leaves) >= 1 =>
            Len(levels[Len(levels)]) = 1 /\ Len(levels) <= Len(leaves))

\* The loop has returned a tree of five leaves with a single root.
C9_Witness ==
    pc = "proofs" /\ Len(leaves) = 5 /\ Len(levels) = 4 /\ Len(levels[4]) = 1

\* C10. A one-address list gives a tree of a single level whose root is the
\* leaf itself, hash(address), never combined; the proof for index 0 is
\* empty and verifies against the root.
C10_SingleLeaf ==
    pc = "done" /\ Len(addresses) = 1 =>
        /\ Len(levels) = 1
        /\ RootOf(levels) = leaves[1]
        /\ BuiltRoot = senderLeaf(addresses[1])
        /\ proofs[1] = <<>>
        /\ verify(toBytes32Array(proofs[1]), BuiltRoot, hexToBytes(leaves[1]))

\* The generator has run on a one-address list.
C10_Witness ==
    /\ pc = "done" /\ Len(addresses) = 1 /\ Len(proofs) = 1
    /\ Len(levels) = 1 /\ levels[1] = leaves

\* ---- the vote claims: a step is a vote call iff last'.op = "vote"; last'
\* holds its sender, ballot, proof and outcome, the unprimed variables the
\* state the call ran in.

\* block.timestamp is inside the ballot's voting window.
InWindow(b) == now >= ballots[b].startTimestamp /\ now <= ballots[b].endTimestamp

\* A vote call on ballot b gets past the modifiers and the finalized check.
ReachesBody(b) ==
    ballots[b].exists /\ InWindow(b) /\ ~paused /\ ~ballots[b].finalized

\* f[0] + ... + f[n].
RECURSIVE SumTo(_, _)
SumTo(f, n) == IF n < 0 THEN 0 ELSE f[n] + SumTo(f, n - 1)

\* All votes counted on ballot b in the tallies cv.
CountedIn(cv, b) == SumTo(cv[b], Cardinality(CandidateNames) - 1)

\* All votes counted on ballot b.
CountedVotes(b) == CountedIn(candidateVotes, b)

\* The step is a vote on a ballot with a non-zero stored root, with a proof
\* that does not reconstruct that root from keccak(sender).
BadProofVote ==
    /\ last'.op = "vote"
    /\ ballots[last'.ballotId].merkleRoot # ZeroRoot
    /\ processProof(last'.proof, senderLeaf(last'.sender))
          # ballots[last'.ballotId].merkleRoot

\* C3 as stated: on a ballot with a non-zero root, every vote whose proof does
\* not reconstruct the root is rejected with "Not eligible" and leaves
\* candidateVotes and hasVoted unchanged.
C3_NotEligibleAlways ==
    [][BadProofVote =>
          /\ last'.outcome = "Not eligible"
          /\ UNCHANGED <<candidateVotes, hasVoted>>]_vars

\* C3 as amended: such a vote is always rejected and leaves candidateVotes and
\* hasVoted unchanged (the sender is not marked); the reason is "Not eligible"
\* whenever the call gets as far as the whitelist check, that is the ballot
\* is inside its window, the contract is not paused, the ballot is not
\* finalized and the sender has not voted; otherwise it is the reason of the
\* earlier check that fails.  A "Not eligible" rejection changes nothing of
\* the contract, so a listed sender's vote with its correct proof succeeds
\* after it.
C3_NotEligible ==
    [][BadProofVote =>
          /\ last'.outcome # "ok"
          /\ UNCHANGED <<candidateVotes, hasVoted>>
          /\ (ReachesBody(last'.ballotId) /\ ~hasVoted[last'.ballotId][last'.sender]
                <=> last'.outcome = "Not eligible")
          /\ last'.outcome = "Not eligible" =>
              \A b \in BallotIds : \A l \in WhiteLists : \A i \in 1 .. Len(l) :
                /\ b = last'.ballotId /\ l[i] = last'.sender
                /\ ballots[b].merkleRoot = RootBytes(l)
                => /\ UNCHANGED <<ballots, nameHashToIdPlusOne, paused, now>>
                   /\ \A n \in Range(ballots[b].candidateNames) :
                         voteOutcome(l[i], b, n, ProofBytes(l, i)) = "ok"]_vars

\* A vote has just been rejected as "Not eligible" and its sender is not
\* marked as having voted.
C3_Witness ==
    /\ last.op = "vote" /\ last.outcome = "Not eligible"
    /\ ballots[last.ballotId].merkleRoot # ZeroRoot
    /\ ~hasVoted[last.ballotId][last.sender]
    /\ ~verify(last.proof, ballots[last.ballotId].merkleRoot, senderLeaf(last.sender))

\* C4 as stated: once an address has voted on a ballot, every later vote by
\* it on that ballot reverts with "Already voted" and changes no tally.
C4_AlreadyVotedAlways ==
    [][last'.op = "vote" /\ hasVoted[last'.ballotId][last'.sender] =>
          /\ last'.outcome = "Already voted"
          /\ UNCHANGED candidateVotes]_vars

\* C4 as amended: each address has at most one counted vote per ballot (the
\* votes counted on a ballot are as many as the addresses marked, a counted
\* vote marks its sender, and a mark is never removed); every later vote by a
\* marked address reverts and changes no tally, with "Already voted" whenever
\* the call gets past the earlier checks (inside the window, not paused, not
\* finalized), whatever candidate or proof is given.
C4_NoDoubleVoting ==
    /\ [][/\ (last'.op = "vote" /\ hasVoted[last'.ballotId][last'.sender] =>
                /\ last'.outcome # "ok"
                /\ UNCHANGED <<candidateVotes, hasVoted>>
                /\ (ReachesBody(last'.ballotId) <=> last'.outcome = "Already voted"))
           /\ (last'.op = "vote" /\ last'.outcome = "ok" =>
                /\ ~hasVoted[last'.ballotId][last'.sender]
                /\ hasVoted'[last'.ballotId][last'.sender]
                /\ CountedIn(candidateVotes', last'.ballotId) = CountedVotes(last'.ballotId) + 1)
           /\ \A b \in BallotIds : \A v \in Voters : hasVoted[b][v] => hasVoted'[b][v]]_vars
    /\ [](\A b \in BallotIds :
            CountedVotes(b) = Cardinality({ v \in Voters : hasVoted[b][v] }))

\* A second vote by an address that has voted has just been turned down.
C4_Witness ==
    /\ last.op = "vote" /\ last.outcome = "Already voted"
    /\ hasVoted[last.ballotId][last.sender]
    /\ CountedVotes(last.ballotId) >= 1

\* C5. On an existing ballot whose stored root is zero no proof is checked:
\* the outcome of a vote is the same for every proof, it is never "Not
\* eligible", and an address that meets the other preconditions (inside the
\* window, not paused, not finalized, not yet voted, known candidate) votes
\* successfully and is counted.
C5_ZeroRootOpen ==
    [][last'.op = "vote" /\ ballots[last'.ballotId].exists
          /\ ballots[last'.ballotId].merkleRoot = ZeroRoot =>
          /\ last'.outcome # "Not eligible"
          /\ \A n \in AllNames :
                vote(last'.sender, last'.ballotId, n, last'.proof) =>
                  /\ \A p \in ProofChoices :
                        voteOutcome(last'.sender, last'.ballotId, n, p) = last'.outcome
                  /\ (/\ ReachesBody(last'.ballotId)
                       /\ ~hasVoted[last'.ballotId][last'.sender]
                       /\ n \in Range(ballots[last'.ballotId].candidateNames)
                       => /\ last'.outcome = "ok"
                          /\ hasVoted'[last'.ballotId][last'.sender]
                          /\ CountedIn(candidateVotes', last'.ballotId) = CountedVotes(last'.ballotId) + 1)]_vars

\* A vote carrying a proof that verifies against nothing has been counted on
\* a zero-root ballot, for an address that is not the owner.
C5_Witness ==
    /\ last.op = "vote" /\ last.outcome = "ok"
    /\ ballots[last.ballotId].merkleRoot = ZeroRoot
    /\ last.proof = << <<1>> >>
    /\ last.sender # owner
    /\ hasVoted[last.ballotId][last.sender]

\* C6. On a ballot whose root was built from an address list, a listed
\* address voting with an empty proof is rejected when the list has two or
\* more leaves ("Not eligible" once the call reaches the whitelist check),
\* and has its empty proof accepted when the list has exactly one leaf (the
\* root is that leaf): the vote is then never "Not eligible" and succeeds if
\* the other preconditions hold.
C6_EmptyProof ==
    [][last'.op = "vote" /\ last'.proof = <<>> =>
          \A l \in WhiteLists :
              /\ ballots[last'.ballotId].exists
              /\ ballots[last'.ballotId].merkleRoot = RootBytes(l)
              /\ last'.sender \in Range(l)
              => IF Len(l) = 1
                 THEN /\ last'.outcome # "Not eligible"
                      /\ (ReachesBody(last'.ballotId)
                             /\ ~hasVoted[last'.ballotId][last'.sender]
                          => last'.outcome \in {"ok", "Candidate not found"})
                 ELSE /\ last'.outcome # "ok"
                      /\ UNCHANGED <<candidateVotes, hasVoted>>
                      /\ (ReachesBody(last'.ballotId)
                             /\ ~hasVoted[last'.ballotId][last'.sender]
                          => last'.outcome = "Not eligible")]_vars

\* The only address of a one-leaf whitelist has voted with an empty proof.
C6_Witness ==
    /\ last.op = "vote" /\ last.outcome = "ok" /\ last.proof = <<>>
    /\ \E l \in WhiteLists :
          /\ Len(l) = 1 /\ last.sender \in Range(l)
          /\ ballots[last.ballotId].merkleRoot = RootBytes(l)
    /\ hasVoted[last.ballotId][last.sender]

\* ---- further claims on the generator

\* 2^n.
RECURSIVE Pow2(_)
Pow2(n) == IF n = 0 THEN 1 ELSE 2 * Pow2(n - 1)

\* C11. The proof of leaf index i has exactly one digest per non-root level;
\* with idx = floor(i / 2^l) at level l, the entry is the node right of idx
\* when idx is even and that node exists, the node idx itself when idx is
\* even and is the unpaired last node of an odd-length level, and the node
\* left of idx when idx is odd.  A 3-address list gives levels of sizes 3, 2,
\* 1 and a proof for index 2 of length 2 whose first element is leaf 2.
C11_ProofShape ==
    pc = "done" /\ Len(leaves) >= 1 =>
        /\ \A i \in 0 .. (Len(leaves) - 1) :
              /\ Len(proofs[i + 1]) = Len(levels) - 1
              /\ \A l \in 0 .. (Len(levels) - 2) :
                    LET lv == levels[l + 1]
                        idx == i \div Pow2(l)
                        entry == proofs[i + 1][l + 1]
                    IN  /\ idx < Len(lv)
                        /\ IF idx % 2 = 1 THEN entry = lv[idx]
                           ELSE IF idx + 1 < Len(lv) THEN entry = lv[idx + 2]
                           ELSE /\ Len(lv) % 2 = 1 /\ idx = Len(lv) - 1
                                /\ entry = lv[idx + 1]
        /\ Len(leaves) = 3 =>
              /\ [l \in 1 .. Len(levels) |-> Len(levels[l])] = <<3, 2, 1>>
              /\ Len(proofs[3]) = 2
              /\ proofs[3][1] = leaves[3]

\* The generator has run on three distinct addresses: the proof of index 2
\* starts with its own leaf, the proof of index 1 with leaf 0.
C11_Witness ==
    /\ pc = "done" /\ Len(addresses) = 3
    /\ Cardinality({ addresses[i] : i \in 1..3 }) = 3
    /\ proofs[3][1] = leaves[3]
    /\ proofs[2][1] = leaves[1]
    /\ proofs[3][2] = levels[2][1]

IsProofList(r, lvls) ==
    /\ DOMAIN r = 1 .. Len(r)
    /\ \A k \in 1 .. Len(r) :
          \/ r[k] = Undefined
          \/ \E l \in 1 .. Len(lvls) : \E j \in 1 .. Len(lvls[l]) : r[k] = lvls[l][j]

\* C13. For a leaf index that is not below the number of leaves
\* getProofForIndex returns no proof list, in particular none with undefined
\* entries.
C13_IndexOutOfRange ==
    pc = "done" =>
        \A index \in Len(leaves) .. (Len(leaves) + 2) :
            ~IsProofList(getProofForIndex(levels, index), levels)

\* C14. The pairwise combine is commutative: the parent the builder computes
\* for (A, B) is the parent it computes for (B, A), and for A = B it is
\* hash(A ++ A).
C14_CombineCommutes ==
    parents # NoParents =>
        /\ parents.builderParent = hexToBytes(combine(hexB, hexA))
        /\ combine(hexA, hexB) = combine(hexB, hexA)
        /\ hexToBytes(hexA) = hexToBytes(hexB) =>
              parents.builderParent = keccak256(hexToBytes(hexA) \o hexToBytes(hexA))

\* The builder has combined two different leaves given in descending order.
C14_Witness ==
    /\ parents # NoParents
    /\ hexToBytes(hexA) \in LeafDigests /\ hexToBytes(hexB) \in LeafDigests
    /\ LexCmp(hexToBytes(hexA), hexToBytes(hexB)) > 0
    /\ parents.builderParent = keccak256(hexToBytes(hexB) \o hexToBytes(hexA))

\* C15. Leaf construction neither deduplicates nor reorders: there are as
\* many leaves as addresses, leaf i is the hash of address i (the leaf the
\* contract computes for that sender), an address listed twice gives two
\* equal leaves whose proofs both verify against the root, and the exported
\* address -> {leaf, proof} map has for every listed address an entry that
\* verifies against the exported root.
C15_LeavesKeepDuplicates ==
    /\ pc # "leaves" =>
          /\ Len(leaves) = Len(addresses)
          /\ \A i \in 1 .. Len(addresses) :
                hexToBytes(leaves[i]) = senderLeaf(addresses[i])
          /\ \A i, j \in 1 .. Len(addresses) :
                addresses[i] = addresses[j] => leaves[i] = leaves[j]
    /\ pc = "done" /\ Len(addresses) >= 1 =>
          /\ \A i \in 1 .. Len(addresses) :
                verify(toBytes32Array(proofs[i]), BuiltRoot, senderLeaf(addresses[i]))
          /\ LET r == handleGenerateRootAndProofs(addresses)
             IN  /\ DOMAIN r.proofsMap = Range(addresses)
                 /\ \A a \in Range(addresses) :
                       /\ hexToBytes(r.proofsMap[a].leaf) = senderLeaf(a)
                       /\ r.proofsMap[a].proof \in Range(proofs)
                       /\ verify(toBytes32Array(r.proofsMap[a].proof),
                                 hexToBytes(r.merkleRoot), senderLeaf(a))

\* The generator has run on a list whose first and third address are the
\* same: two equal leaves with different proofs, both verifying.
C15_Witness ==
    /\ pc = "done" /\ Len(addresses) = 4
    /\ addresses[1] = addresses[3]
    /\ leaves[1] = leaves[3]
    /\ proofs[1] # proofs[3]
    /\ verify(toBytes32Array(proofs[1]), BuiltRoot, hexToBytes(leaves[1]))
    /\ verify(toBytes32Array(proofs[3]), BuiltRoot, hexToBytes(leaves[3]))
    /\ handleGenerateRootAndProofs(addresses).proofsMap[addresses[1]].proof = proofs[3]

\* ---- further claims on the contract

\* q[1] + ... + q[Len(q)].
RECURSIVE SumSeq(_)
SumSeq(q) == IF q = <<>> THEN 0 ELSE Head(q) + SumSeq(Tail(q))

\* C16. Tally correctness.  In every state, getResults of an existing ballot
\* has one count per candidate, in candidate order, and the counts add up to
\* the number of addresses marked in hasVoted for the ballot.  The count of
\* candidate i is the number of successful votes naming i: a new ballot
\* starts with all counts 0, a successful vote naming a candidate adds
\* exactly 1 to that candidate's count and leaves every other count as it
\* was, and no other step (a reverted vote included) changes any count.
C16_TallyCorrect ==
    /\ [](\A b \in BallotIds : ballots[b].exists =>
            /\ Len(getResults(b)) = Len(ballots[b].candidateNames)
            /\ SumSeq(getResults(b)) = Cardinality({ v \in Voters : hasVoted[b][v] }))
    /\ [][\A b \in BallotIds :
            LET res == getResults(b)
                res2 == resultsOf(ballots', candidateVotes', b)
                names == ballots[b].candidateNames
            IN  /\ (~ballots[b].exists /\ ballots'[b].exists =>
                      /\ last'.op = "createBallot"
                      /\ res2 = [i \in 1 .. Len(ballots'[b].candidateNames) |-> 0])
                /\ (ballots[b].exists =>
                      IF last'.op = "vote" /\ last'.outcome = "ok" /\ last'.ballotId = b
                      THEN \A n \in AllNames :
                             vote(last'.sender, b, n, last'.proof) =>
                               /\ IndexOf(names, n) \in 1 .. Len(names)
                               /\ res2 = [res EXCEPT ![IndexOf(names, n)] = @ + 1]
                      ELSE res2 = res)]_vars

\* Two votes have been counted on a two-candidate ballot, both for the second
\* candidate.
C16_Witness ==
    \E b \in BallotIds :
        /\ ballots[b].exists
        /\ ballots[b].candidateNames = <<"Alice", "Bob">>
        /\ getResults(b) = <<0, 2>>
        /\ last.op = "vote" /\ last.outcome = "ok"

\* C17. Tie-aware winners.  On a finalized ballot where a vote was cast,
\* getWinners returns the maximum tally and exactly the names of the
\* candidates whose tally is that maximum, in candidate-index order; on a
\* finalized ballot without votes it returns the empty list and 0; on a ballot
\* that is not finalized it reverts with "Ballot not finalized".
C17_TieAwareWinners ==
    \A b \in BallotIds : ballots[b].exists =>
        LET r == getWinners(b)
            names == ballots[b].candidateNames
            tally(i) == candidateVotes[b][i - 1]
            M == CHOOSE m \in { tally(i) : i \in 1 .. Len(names) } :
                     \A i \in 1 .. Len(names) : tally(i) <= m
            W == { i \in 1 .. Len(names) : tally(i) = M }
            kth(k) == CHOOSE i \in W : Cardinality({ j \in W : j < i }) = k - 1
        IN  IF ~ballots[b].finalized THEN r.outcome = "Ballot not finalized"
            ELSE IF \E v \in Voters : hasVoted[b][v]
            THEN /\ r.outcome = "ok"
                 /\ r.winningVotes = M /\ M >= 1
                 /\ Len(r.winners) = Cardinality(W)
                 /\ \A k \in 1 .. Len(r.winners) : r.winners[k] = names[kth(k)]
            ELSE r = [outcome |-> "ok", winners |-> <<>>, winningVotes |-> 0]

\* A finalized ballot on which two candidates are tied with one vote each.
C17_Witness ==
    \E b \in BallotIds :
        /\ ballots[b].finalized
        /\ getWinners(b) = [outcome |-> "ok", winners |-> <<"Alice", "Bob">>,
                            winningVotes |-> 1]

\* C18. finalizeBallot on an existing ballot that is not finalized: once
\* block time is past endTimestamp it succeeds for any caller; while block
\* time is not past endTimestamp a caller other than the owner is rejected
\* with "Voting not ended"; the owner succeeds at any time, also before the
\* window opens.  A success sets finalized, a rejection does not.
C18_FinalizeRule ==
    [][last'.op = "finalizeBallot" /\ ballots[last'.ballotId].exists
          /\ ~ballots[last'.ballotId].finalized =>
          LET b == last'.ballotId
              ended == now > ballots[b].endTimestamp
          IN  /\ (ended \/ last'.sender = owner =>
                    last'.outcome = "ok" /\ ballots'[b].finalized)
              /\ (~ended /\ last'.sender # owner =>
                    last'.outcome = "Voting not ended" /\ ~ballots'[b].finalized)]_vars

\* An account that is not the owner has finalized a ballot after its end.
C18_Witness ==
    /\ last.op = "finalizeBallot" /\ last.outcome = "ok"
    /\ last.sender # owner
    /\ now > ballots[last.ballotId].endTimestamp
    /\ ballots[last.ballotId].finalized

\* C19. A finalized ballot is permanent: every step leaves it finalized and
\* leaves its tallies, its has-voted flags, its end timestamp and its merkle
\* root as they are, so in every later state they are as at finalization;
\* vote, extendBallotEnd, updateMerkleRoot and a second finalizeBallot on it
\* all revert (the second finalizeBallot with "Already finalized").
C19_FinalizedIsPermanent ==
    [][\A b \in BallotIds : ballots[b].finalized =>
          /\ ballots'[b].finalized
          /\ candidateVotes'[b] = candidateVotes[b]
          /\ hasVoted'[b] = hasVoted[b]
          /\ ballots'[b].endTimestamp = ballots[b].endTimestamp
          /\ ballots'[b].merkleRoot = ballots[b].merkleRoot
          /\ (last'.ballotId = b
                /\ last'.op \in {"vote", "extendBallotEnd", "updateMerkleRoot", "finalizeBallot"}
              => last'.outcome # "ok")
          /\ (last'.ballotId = b /\ last'.op = "finalizeBallot"
              => last'.outcome = "Already finalized")]_vars

\* The owner's updateMerkleRoot has been turned down on a finalized ballot
\* that holds a counted vote.
C19_Witness ==
    /\ last.op = "updateMerkleRoot" /\ last.outcome = "Already finalized"
    /\ last.sender = owner
    /\ ballots[last.ballotId].finalized
    /\ \E v \in Voters : hasVoted[last.ballotId][v]

\* C20 as stated, for votes on ballots that exist: while the contract is
\* paused every vote call reverts with "Pausable: paused" and changes no tally.
C20_PausedReasonAlways ==
    [][last'.op = "vote" /\ paused /\ ballots[last'.ballotId].exists =>
          /\ last'.outcome = "Pausable: paused"
          /\ UNCHANGED candidateVotes]_vars

\* C20 as amended: while the contract is paused every vote call reverts and
\* changes no tally and no has-voted flag; the reason is "Pausable: paused"
\* exactly when the ballot exists and block time is inside its window, and
\* otherwise the reason of the modifier that runs before whenNotPaused
\* ("Ballot not found", "Voting not started", "Voting ended").  Only a
\* successful pause or unpause by the owner changes the paused flag, and
\* neither changes a ballot, a tally or a flag, so votes counted before the
\* pause are preserved.  While not paused (so after unpause) a vote that
\* satisfies the other preconditions succeeds and is counted.
C20_PauseBlocksVoting ==
    [][/\ (last'.op = "vote" /\ paused =>
            /\ last'.outcome # "ok"
            /\ UNCHANGED <<candidateVotes, hasVoted>>
            /\ (ballots[last'.ballotId].exists /\ InWindow(last'.ballotId)
                  <=> last'.outcome = "Pausable: paused"))
       /\ (paused' # paused =>
            /\ last'.op = (IF paused THEN "unpause" ELSE "pause")
            /\ last'.outcome = "ok" /\ last'.sender = owner)
       /\ (last'.op \in {"pause", "unpause"} =>
            /\ UNCHANGED <<ballots, candidateVotes, hasVoted, nameHashToIdPlusOne>>
            /\ (last'.outcome = "ok" => paused' = (last'.op = "pause")))
       /\ (last'.op = "vote" /\ ~paused =>
            LET b == last'.ballotId
                s == last'.sender
            IN  \A n \in AllNames :
                  /\ vote(s, b, n, last'.proof)
                  /\ ReachesBody(b) /\ ~hasVoted[b][s]
                  /\ (ballots[b].merkleRoot = ZeroRoot
                        \/ processProof(last'.proof, senderLeaf(s)) = ballots[b].merkleRoot)
                  /\ n \in Range(ballots[b].candidateNames)
                  => /\ last'.outcome = "ok"
                     /\ hasVoted'[b][s]
                     /\ CountedIn(candidateVotes', b) = CountedVotes(b) + 1)]_vars

\* A vote inside the window has been turned down because the contract is
\* paused, on a ballot that keeps a vote counted before the pause.
C20_Witness ==
    /\ paused
    /\ last.op = "vote" /\ last.outcome = "Pausable: paused"
    /\ InWindow(last.ballotId)
    /\ ~hasVoted[last.ballotId][last.sender]
    /\ CountedVotes(last.ballotId) = 1

\* C21 as stated: in every state where paused is true, no call changes any
\* ballot's stored state (existence, title, times, root, candidates,
\* finalized flag, tallies, has-voted flags) or nextBallotId.
C21_PausedFreezesAll ==
    [][paused =>
          UNCHANGED <<ballots, nameHashToIdPlusOne, candidateVotes, hasVoted,
                      nextBallotId>>]_vars

\* C21 as amended: while the contract is paused createBallot, vote,
\* extendBallotEnd and updateMerkleRoot revert, and no call changes a
\* ballot's existence, title, times, root, candidates, tallies or has-voted
\* flags, or nextBallotId.  finalizeBallot is not pausable: while paused it
\* can still set the finalized flag of a ballot, which is the only change a
\* call makes to a ballot.
C21_PausedFreezes ==
    [][paused =>
          /\ UNCHANGED <<nameHashToIdPlusOne, candidateVotes, hasVoted, nextBallotId>>
          /\ (last'.op \in {"createBallot", "vote", "extendBallotEnd", "updateMerkleRoot"}
                => last'.outcome # "ok")
          /\ \A b \in BallotIds :
                \/ ballots'[b] = ballots[b]
                \/ /\ last'.op = "finalizeBallot" /\ last'.outcome = "ok"
                   /\ last'.ballotId = b
                   /\ ~ballots[b].finalized
                   /\ ballots'[b] = [ballots[b] EXCEPT !.finalized = TRUE]]_vars

\* The owner's extendBallotEnd, acceptable otherwise, has been turned down
\* because the contract is paused.
C21_Witness ==
    /\ paused
    /\ last.op = "extendBallotEnd" /\ last.outcome = "Pausable: paused"
    /\ last.sender = owner
    /\ ballots[last.ballotId].exists /\ ~ballots[last.ballotId].finalized
    /\ ballots[last.ballotId].endTimestamp < MaxTime

\* The functions marked onlyOwner.
AdminOps ==
    {"createBallot", "extendBallotEnd", "updateMerkleRoot", "pause", "unpause",
     "transferOwnership", "renounceOwnership"}

\* C22. Owner-only administration: createBallot, extendBallotEnd,
\* updateMerkleRoot, pause and unpause succeed only when the caller is the
\* contract's current owner; called by any other address they revert (with
\* "Ownable: caller is not the owner") and leave the contract state as it is.
\* The owner is the deployer until ownership is transferred or renounced,
\* which only the owner can do.
C22_OwnerOnly ==
    [][/\ (last'.op \in AdminOps =>
            /\ (last'.outcome = "ok" => last'.sender = owner)
            /\ (last'.sender # owner =>
                  /\ last'.outcome = "Ownable: caller is not the owner"
                  /\ UNCHANGED <<owner, ballots, candidateVotes, hasVoted,
                                 nameHashToIdPlusOne, nextBallotId, paused, now>>))
       /\ (owner' # owner => last'.sender = owner)
       /\ (paused' # paused \/ nextBallotId' # nextBallotId => last'.sender = owner)
       /\ \A b \in BallotIds :
             \/ ballots'[b].endTimestamp # ballots[b].endTimestamp
             \/ ballots'[b].merkleRoot # ballots[b].merkleRoot
             \/ ballots'[b].exists # ballots[b].exists
             => last'.sender = owner]_vars

\* After a transfer of ownership the deployer's pause has been turned down.
C22_Witness ==
    /\ last.op = "pause" /\ last.outcome = "Ownable: caller is not the owner"
    /\ last.sender = Deployer
    /\ owner \in Voters /\ owner # Deployer
    /\ ~paused

\* The entries of a proof text: its comma-separated pieces without the white
\* space around them, blank pieces not counted.
EntriesOf(text) == { trim(q) : q \in Range(split(text)) } \ {<<>>}

Votable(b) == ballots[b].exists /\ InWindow(b) /\ ~ballots[b].finalized

\* C24 as stated: a vote succeeds only on an existing, non-finalized ballot
\* inside its window, start and end included; every other vote reverts with
\* "Ballot not found", "Voting not started", "Voting ended" or "Ballot
\* finalized", whichever condition fails first in that order, and no tally
\* changes.
C24_WindowReasonsAlways ==
    [][last'.op = "vote" =>
          LET b == last'.ballotId
          IN  /\ last'.outcome = "ok" => Votable(b)
              /\ ~Votable(b) =>
                   /\ last'.outcome =
                        (IF ~ballots[b].exists THEN "Ballot not found"
                         ELSE IF now < ballots[b].startTimestamp THEN "Voting not started"
                         ELSE IF now > ballots[b].endTimestamp THEN "Voting ended"
                         ELSE "Ballot finalized")
                   /\ UNCHANGED candidateVotes]_vars

\* C24 as amended: a tally changes only in a successful vote, and a vote
\* succeeds only on an existing, non-finalized ballot at a block time from
\* startTimestamp to endTimestamp, both included.  Every other vote reverts
\* and changes no tally and no has-voted flag, with "Ballot not found",
\* "Voting not started" or "Voting ended" for the first of these conditions
\* that fails; on a finalized ballot inside its window the reason is
\* "Ballot finalized" when the contract is not paused and "Pausable: paused"
\* when it is.
C24_WindowReasons ==
    [][/\ (candidateVotes' # candidateVotes =>
             last'.op = "vote" /\ last'.outcome = "ok")
       /\ (last'.op = "vote" =>
             LET b == last'.ballotId
             IN  /\ last'.outcome = "ok" => Votable(b)
                 /\ ~Votable(b) =>
                      /\ last'.outcome =
                           (IF ~ballots[b].exists THEN "Ballot not found"
                            ELSE IF now < ballots[b].startTimestamp THEN "Voting not started"
                            ELSE IF now > ballots[b].endTimestamp THEN "Voting ended"
                            ELSE IF paused THEN "Pausable: paused"
                            ELSE "Ballot finalized")
                      /\ UNCHANGED <<candidateVotes, hasVoted>>)]_vars

\* A vote has been counted at the last moment of a window that opened
\* earlier, and a second voter has then been turned down on the same ballot
\* because it is finalized.
C24_Witness ==
    /\ last.op = "vote" /\ last.outcome = "Ballot finalized"
    /\ now = ballots[last.ballotId].endTimestamp
    /\ now > ballots[last.ballotId].startTimestamp
    /\ CountedVotes(last.ballotId) = 1

\* C25 as stated: once block time has passed a ballot's endTimestamp, no
\* later step counts a vote on that ballot, whatever the owner did in between.
C25_EndIsFinal ==
    [][\A b \in endedOnce : CountedIn(candidateVotes', b) = CountedVotes(b)]_vars

\* C25 as amended: while block time is past a ballot's endTimestamp no vote
\* on it is counted, and block time never goes back.  The end moves only in
\* a successful extendBallotEnd, which the owner alone can make, on a ballot
\* that is not finalized, while the contract is not paused, and to a later
\* time; made after the end has passed it reopens voting.  Once the ballot
\* is finalized it stays finalized, its end and its tallies never change
\* again, so no further vote on it is ever counted.
C25_EndedUntilExtended ==
    [][/\ now' >= now
       /\ \A b \in BallotIds :
            /\ (b \in Ended(ballots, now) =>
                  CountedIn(candidateVotes', b) = CountedVotes(b))
            /\ (ballots[b].exists /\ ballots'[b].endTimestamp # ballots[b].endTimestamp =>
                  /\ last'.op = "extendBallotEnd" /\ last'.outcome = "ok"
                  /\ last'.ballotId = b /\ last'.sender = owner
                  /\ ~paused /\ ~ballots[b].finalized
                  /\ ballots'[b].endTimestamp > ballots[b].endTimestamp)
            /\ (ballots[b].exists /\ ballots[b].finalized =>
                  /\ ballots'[b].finalized
                  /\ ballots'[b].endTimestamp = ballots[b].endTimestamp
                  /\ CountedIn(candidateVotes', b) = CountedVotes(b))]_vars

\* Voting on a ballot had ended, the owner extended it, and a vote has been
\* counted after that.
C25_Witness ==
    /\ last.op = "vote" /\ last.outcome = "ok"
    /\ last.ballotId \in endedOnce
    /\ CountedVotes(last.ballotId) = 1

\* Voter s with proof p is eligible on ballot b under the root stored now.
EligibleNow(b, s, p) ==
    \/ ballots[b].merkleRoot = ZeroRoot
    \/ processProof(p, senderLeaf(s)) = ballots[b].merkleRoot

\* C26: every counted vote was eligible when it was cast: the stored root
\* was zero, or the proof verified against the root stored at that moment.
\* A vote that gets as far as the whitelist check is decided by the root
\* stored at that moment alone, so after updateMerkleRoot by the new root.
\* A successful updateMerkleRoot changes the root of its ballot and nothing
\* else, and no updateMerkleRoot changes a tally or a has-voted flag: votes
\* counted under the previous root stay counted.
C26_EligibleWhenCast ==
    [][/\ (last'.op = "vote" =>
             LET b == last'.ballotId
                 s == last'.sender
             IN  /\ last'.outcome = "ok" => EligibleNow(b, s, last'.proof)
                 /\ ReachesBody(b) /\ ~hasVoted[b][s] =>
                      (last'.outcome = "Not eligible" <=> ~EligibleNow(b, s, last'.proof)))
       /\ (last'.op = "updateMerkleRoot" =>
             LET b == last'.ballotId
             IN  /\ UNCHANGED <<candidateVotes, hasVoted>>
                 /\ ballots' = [ballots EXCEPT ![b].merkleRoot = ballots'[b].merkleRoot]
                 /\ last'.outcome # "ok" => UNCHANGED ballots)]_vars

\* A voter whose vote is counted is not on the whitelist stored now (no
\* proof makes them eligible under it), so the root was replaced after that
\* vote; and a vote with a proof of another whitelist has just been turned
\* down under the new root.
C26_Witness ==
    LET b == last.ballotId
    IN  /\ last.op = "vote" /\ last.outcome = "Not eligible"
        /\ ballots[b].merkleRoot # ZeroRoot
        /\ CountedVotes(b) = 1
        /\ \E v \in Voters :
             /\ hasVoted[b][v]
             /\ \A p \in ProofChoices : ~EligibleNow(b, v, p)
        /\ \E l \in WhiteLists :
             processProof(last.proof, senderLeaf(last.sender)) = RootBytes(l)

\* C27: ballot ids are dense and never reused.  nextBallotId starts at 0 and
\* grows by 1 in every successful createBallot and in no other step, so it
\* is the number of successful createBallot calls; a ballot exists exactly
\* for the ids below nextBallotId; a successful createBallot returns the
\* previous nextBallotId, makes that ballot and leaves every other ballot
\* and its candidate names as they were; a reverted createBallot changes
\* neither nextBallotId nor any ballot nor any candidate-name entry.
C27_DenseIds ==
    /\ [](\A b \in BallotIds : ballots[b].exists <=> b < nextBallotId)
    /\ [](\A b \in BallotIds : ~ballots[b].exists =>
            /\ ballots[b] = NoBallot
            /\ \A n \in AllNames : nameHashToIdPlusOne[b][n] = 0)
    /\ [][IF last'.op = "createBallot" /\ last'.outcome = "ok"
          THEN /\ nextBallotId' = nextBallotId + 1
               /\ last'.ballotId = nextBallotId
               /\ ~ballots[nextBallotId].exists /\ ballots'[nextBallotId].exists
               /\ \A b \in BallotIds \ {nextBallotId} :
                    /\ ballots'[b] = ballots[b]
                    /\ nameHashToIdPlusOne'[b] = nameHashToIdPlusOne[b]
          ELSE UNCHANGED <<nextBallotId, nameHashToIdPlusOne>>
               /\ \A b \in BallotIds :
                    /\ ballots'[b].exists = ballots[b].exists
                    /\ last'.op = "createBallot" => ballots'[b] = ballots[b]]_vars

\* Two different ballots exist under ids 0 and 1, and a createBallot with a
\* repeated candidate name has just reverted without using up id 2.
C27_Witness ==
    /\ nextBallotId = 2
    /\ ballots[0].exists /\ ballots[1].exists /\ ~ballots[2].exists
    /\ ballots[0] # ballots[1]
    /\ last.ballotId = 2
    /\ last.op = "createBallot" /\ last.outcome = "Duplicate candidate name"

\* The effect of a counted vote of s for name n on ballot b, and nothing else.
VoteFrame(s, b, n) ==
    LET i == IndexOf(ballots[b].candidateNames, n) - 1
    IN  /\ i \in 0 .. (Len(ballots[b].candidateNames) - 1)
        /\ candidateVotes' = [candidateVotes EXCEPT ![b][i] = @ + 1]
        /\ ~hasVoted[b][s]
        /\ hasVoted' = [hasVoted EXCEPT ![b][s] = TRUE]
        /\ UNCHANGED <<ballots, nameHashToIdPlusOne, nextBallotId, paused, owner, now>>

\* C28 as stated: a successful vote adds exactly 1 to the tally of the named
\* candidate, sets the sender's flag and changes nothing else; a vote on an
\* existing ballot naming a candidate that is not on it reverts with
\* "Candidate not found" and changes nothing.
C28_FrameAlways ==
    [][last'.op = "vote" =>
          \A n \in AllNames :
             LET b == last'.ballotId
                 s == last'.sender
             IN  vote(s, b, n, last'.proof) =>
                   /\ last'.outcome = "ok" => VoteFrame(s, b, n)
                   /\ ballots[b].exists /\ n \notin Range(ballots[b].candidateNames) =>
                        /\ last'.outcome = "Candidate not found"
                        /\ UNCHANGED <<owner, ballots, candidateVotes, hasVoted,
                                       nameHashToIdPlusOne, nextBallotId, paused, now>>]_vars

\* C28 as amended: a successful vote adds exactly 1 to the tally of the
\* named candidate, sets the sender's flag and changes nothing else.  A vote
\* that reverts changes nothing.  A vote naming a candidate that is not on
\* the ballot always reverts; its reason is "Candidate not found" exactly
\* when every earlier check passes (the ballot exists, block time is inside
\* the window, the contract is not paused, the ballot is not finalized, the
\* sender has not voted and is eligible), and the reason of the first
\* failing check otherwise.
C28_Frame ==
    [][last'.op = "vote" =>
          \A n \in AllNames :
             LET b == last'.ballotId
                 s == last'.sender
             IN  vote(s, b, n, last'.proof) =>
                   /\ last'.outcome = "ok" => VoteFrame(s, b, n)
                   /\ last'.outcome # "ok" =>
                        UNCHANGED <<owner, ballots, candidateVotes, hasVoted,
                                    nameHashToIdPlusOne, nextBallotId, paused, now>>
                   /\ n \notin Range(ballots[b].candidateNames) =>
                        /\ last'.outcome # "ok"
                        /\ (last'.outcome = "Candidate not found"
                              <=> /\ ReachesBody(b) /\ ~hasVoted[b][s]
                                  /\ EligibleNow(b, s, last'.proof))]_vars

\* The second voter's vote has just been counted for the first candidate of
\* a ballot on which the first voter's vote for the second candidate stands.
C28_Witness ==
    LET b == last.ballotId
    IN  /\ last.op = "vote" /\ last.outcome = "ok" /\ last.sender # Deployer
        /\ ballots[b].candidateNames = <<"Alice", "Bob">>
        /\ candidateVotes[b][0] = 1 /\ candidateVotes[b][1] = 1
        /\ \A v \in Voters : hasVoted[b][v]

\* Steps withRetries can still take at most: two for every call of fn that
\* may follow (the call and the wait after it), and the wait under way.
RetryVariant ==
    IF rpc \in {"returned", "thrown"} THEN 0
    ELSE 2 * (retries + 1 - calls) + (IF rpc = "wait" THEN 1 ELSE 0)

\* C29: withRetries calls fn at most retries + 1 times.  A success is
\* returned at once and nothing follows it.  A failure whose message is not
\* classified retriable is rethrown at once, without a wait or another
\* call, and so is the (retries + 1)-th failure, each with its own error.
\* Any other failure is followed by a wait and one more call; the waits are
\* initialDelay, then twice the previous one each time.  Every step brings
\* the call nearer to its end, so it terminates when fn does.
C29_BoundedRetries ==
    /\ [](/\ calls <= retries + 1
          /\ calls = Len(waits) + (IF rpc = "call" THEN 0 ELSE 1)
          /\ \A i \in 1..Len(waits) : waits[i] = initialDelay * Pow2(i - 1)
          /\ RetryVariant >= 0)
    /\ [][/\ rpc \notin {"returned", "thrown"}
          /\ RetryVariant' < RetryVariant
          /\ UNCHANGED <<retries, initialDelay>>
          /\ (calls' # calls =>
                /\ calls' = calls + 1
                /\ waits' = waits
                /\ rpc' \in {"returned", "thrown", "wait"}
                /\ (rpc' = "returned" => thrown' = thrown)
                /\ (rpc' # "returned" =>
                      /\ thrown' \in ErrorMessages
                      /\ rpc' = "thrown"
                           <=> ~retriable(thrown') \/ calls' = retries + 1))
          /\ (rpc = "wait" =>
                /\ rpc' = "call" /\ calls' = calls /\ thrown' = thrown
                /\ waits' = Append(waits, IF waits = <<>> THEN initialDelay
                                          ELSE 2 * waits[Len(waits)]))]_vars

\* Three retriable failures with the waits 2, 4, 8 between the calls, and
\* the success of the fourth call returned.
C29_Witness ==
    /\ rpc = "returned"
    /\ retries = 3 /\ calls = 4
    /\ waits = <<2, 4, 8>>
    /\ retriable(thrown)

====
